---- MODULE Spec2Model ----
(***************************************************************************)
(* Model of the shegymz payment-notification integration:                  *)
(*   POST /api/webhook/paystack  (src/src/app/api/webhook/paystack/route.ts)*)
(*   POST /api/subscribe         (src/unnamed/part_001)                    *)
(*   the gateway client          (src/src/lib/paystack.ts)                 *)
(*   the email functions         (src/src/lib/email.ts)                    *)
(* Every HTTP request runs in a slot of Req.  An action is the code that   *)
(* runs between two awaits of a request; gateway and email-provider        *)
(* answers are inputs of the action that resumes after the await.          *)
(***************************************************************************)
EXTENDS Integers, Sequences, FiniteSets, TLC

VARIABLES env, pc, request, local, trace, emails, response

vars == <<env, pc, request, local, trace, emails, response>>

(***************************************************************************)
(* Bounds and basic values                                                 *)
(***************************************************************************)

\* number of hex characters kept of a digest (the code keeps 128)
HexLen == 2

\* the request slots; Solo is the slot used when requests are studied alone
Req == {1, 2}
Solo == {1}

\* a JavaScript undefined / null / absent property, for string-valued fields
Absent == "<absent>"

Truthy(s) == s # Absent /\ s # ""

\* a || b of JavaScript on string-valued fields
OrElse(a, b) == IF Truthy(a) THEN a ELSE b

(***************************************************************************)
(* Environment (process.env)                                               *)
(***************************************************************************)

SecretKeys == {Absent, "sk_test_shegymz"}
ForeignKey == "sk_test_other"
PlanCodes == {Absent, "PLN_monthly"}
AdminEmails == {Absent, "owner@shegymz.com"}

Envs == [PAYSTACK_SECRET_KEY : SecretKeys, PAYSTACK_PLAN_CODE : PlanCodes,
         ADMIN_EMAIL : AdminEmails]

\* const PAYSTACK_SECRET_KEY = process.env.PAYSTACK_SECRET_KEY || ''
PAYSTACK_SECRET_KEY(e) == OrElse(e.PAYSTACK_SECRET_KEY, "")

adminEmailHardcoded(e) == "admin@shegymz.com"

\* process.env.ADMIN_EMAIL || 'admin@shegymz.com'
adminEmail(e) == OrElse(e.ADMIN_EMAIL, "admin@shegymz.com")

(***************************************************************************)
(* Webhook bodies: the text the endpoint reads, and what JSON.parse makes  *)
(* of it.                                                                  *)
(***************************************************************************)

NoCustomer == [present |-> FALSE, email |-> Absent, first_name |-> Absent,
               last_name |-> Absent]

NoAuthorization == [present |-> FALSE, authorization_code |-> Absent,
                    last4 |-> Absent, card_type |-> Absent]

\* a number of the payload that is a non-negative integer is the sequence of
\* its decimal digits, most significant first (zero is <<0>>, an absent
\* number is <<>>)
NoData == [present |-> FALSE, reference |-> Absent, amount |-> <<>>,
           gateway_response |-> Absent, paid_at |-> Absent,
           customer |-> NoCustomer, authorization |-> NoAuthorization]

\* the value of JSON.parse: it throws (threw), yields null (isNull), or an
\* object whose properties are the remaining fields
NoEvent == [threw |-> FALSE, isNull |-> FALSE, event |-> Absent, data |-> NoData]

Thandi == [present |-> TRUE, email |-> "thandi@example.com",
           first_name |-> "Thandi", last_name |-> "Nkosi"]

Visa == [present |-> TRUE, authorization_code |-> "AUTH_abc123",
         last4 |-> "4081", card_type |-> "visa"]

Charge == [present |-> TRUE, reference |-> "SUB_1_x7", amount |-> <<3, 9, 9, 0, 0>>,
           gateway_response |-> "Approved", paid_at |-> "2025-01-15T10:00:00Z",
           customer |-> Thandi, authorization |-> NoAuthorization]

EventOf(kind, data) == [NoEvent EXCEPT !.event = kind, !.data = data]

BodyCatalogue ==
  << [text |-> "not json", parsed |-> [NoEvent EXCEPT !.threw = TRUE]],
     [text |-> "null", parsed |-> [NoEvent EXCEPT !.isNull = TRUE]],
     [text |-> "{\"event\":\"charge.success\"}",
      parsed |-> EventOf("charge.success", NoData)],
     [text |-> "{\"event\":\"charge.success\",\"data\":{\"reference\":\"SUB_1_x7\",\"amount\":39900}}",
      parsed |-> EventOf("charge.success", [Charge EXCEPT !.customer = NoCustomer,
                              !.gateway_response = Absent, !.paid_at = Absent])],
     [text |-> "{\"event\":\"charge.success\",\"data\":{\"reference\":\"SUB_1_x7\",\"amount\":39900,\"gateway_response\":\"Approved\",\"paid_at\":\"2025-01-15T10:00:00Z\",\"customer\":{\"email\":\"thandi@example.com\",\"first_name\":\"Thandi\",\"last_name\":\"Nkosi\"},\"authorization\":{\"authorization_code\":\"AUTH_abc123\",\"last4\":\"4081\",\"card_type\":\"visa\"}}}",
      parsed |-> EventOf("charge.success", [Charge EXCEPT !.authorization = Visa])],
     [text |-> "{\"event\":\"charge.success\",\"data\":{\"reference\":\"SUB_1_x7\",\"amount\":39900,\"gateway_response\":\"Approved\",\"paid_at\":\"2025-01-15T10:00:00Z\",\"customer\":{\"email\":\"thandi@example.com\",\"first_name\":\"Thandi\",\"last_name\":\"Nkosi\"}}}",
      parsed |-> EventOf("charge.success", Charge)],
     [text |-> "{\"event\":\"charge.failed\",\"data\":{\"reference\":\"SUB_1_x7\",\"amount\":39900,\"gateway_response\":\"Declined\",\"customer\":{\"email\":\"thandi@example.com\",\"first_name\":\"Thandi\",\"last_name\":\"Nkosi\"}}}",
      parsed |-> EventOf("charge.failed", [Charge EXCEPT !.gateway_response = "Declined",
                              !.paid_at = Absent])],
     [text |-> "{\"event\":\"charge.failed\",\"data\":{\"reference\":\"SUB_1_x7\",\"amount\":39900,\"customer\":{\"email\":\"thandi@example.com\",\"first_name\":\"Thandi\",\"last_name\":\"Nkosi\"}}}",
      parsed |-> EventOf("charge.failed", [Charge EXCEPT !.gateway_response = Absent,
                              !.paid_at = Absent])],
     [text |-> "{\"event\":\"subscription.create\",\"data\":{\"reference\":\"SUB_1_x7\",\"amount\":39900,\"gateway_response\":\"Approved\",\"paid_at\":\"2025-01-15T10:00:00Z\",\"customer\":{\"email\":\"thandi@example.com\",\"first_name\":\"Thandi\",\"last_name\":\"Nkosi\"},\"authorization\":{\"authorization_code\":\"AUTH_abc123\",\"last4\":\"4081\",\"card_type\":\"visa\"}}}",
      parsed |-> EventOf("subscription.create", [Charge EXCEPT !.authorization = Visa])],
     [text |-> "{\"event\":\"subscription.disable\",\"data\":{\"reference\":\"SUB_1_x7\",\"amount\":39900,\"gateway_response\":\"Approved\",\"paid_at\":\"2025-01-15T10:00:00Z\",\"customer\":{\"email\":\"thandi@example.com\",\"first_name\":\"Thandi\",\"last_name\":\"Nkosi\"},\"authorization\":{\"authorization_code\":\"AUTH_abc123\",\"last4\":\"4081\",\"card_type\":\"visa\"}}}",
      parsed |-> EventOf("subscription.disable", [Charge EXCEPT !.authorization = Visa])],
     [text |-> "{\"event\":\"invoice.update\",\"data\":{\"reference\":\"SUB_1_x7\",\"amount\":39900,\"gateway_response\":\"Approved\",\"paid_at\":\"2025-01-15T10:00:00Z\",\"customer\":{\"email\":\"thandi@example.com\",\"first_name\":\"Thandi\",\"last_name\":\"Nkosi\"},\"authorization\":{\"authorization_code\":\"AUTH_abc123\",\"last4\":\"4081\",\"card_type\":\"visa\"}}}",
      parsed |-> EventOf("invoice.update", [Charge EXCEPT !.authorization = Visa])],
     [text |-> "{\"data\":{\"reference\":\"SUB_1_x7\",\"amount\":39900,\"gateway_response\":\"Approved\",\"paid_at\":\"2025-01-15T10:00:00Z\",\"customer\":{\"email\":\"thandi@example.com\",\"first_name\":\"Thandi\",\"last_name\":\"Nkosi\"},\"authorization\":{\"authorization_code\":\"AUTH_abc123\",\"last4\":\"4081\",\"card_type\":\"visa\"}}}",
      parsed |-> EventOf(Absent, [Charge EXCEPT !.authorization = Visa])],
     [text |-> "{\"event\":\"charge.failed\",\"data\":{\"reference\":\"SUB_1_x7\",\"amount\":0,\"gateway_response\":\"Declined\",\"customer\":{\"email\":\"thandi@example.com\",\"first_name\":\"Thandi\",\"last_name\":\"Nkosi\"}}}",
      parsed |-> EventOf("charge.failed", [Charge EXCEPT !.amount = <<0>>,
                              !.gateway_response = "Declined", !.paid_at = Absent])],
     [text |-> "{\"event\":\"charge.failed\",\"data\":{\"reference\":\"SUB_1_x7\",\"amount\":5,\"gateway_response\":\"Declined\",\"customer\":{\"email\":\"thandi@example.com\",\"first_name\":\"Thandi\",\"last_name\":\"Nkosi\"}}}",
      parsed |-> EventOf("charge.failed", [Charge EXCEPT !.amount = <<5>>,
                              !.gateway_response = "Declined", !.paid_at = Absent])],
     [text |-> "{\"event\":\"charge.failed\",\"data\":{\"reference\":\"SUB_1_x7\",\"amount\":99,\"gateway_response\":\"Declined\",\"customer\":{\"email\":\"thandi@example.com\",\"first_name\":\"Thandi\",\"last_name\":\"Nkosi\"}}}",
      parsed |-> EventOf("charge.failed", [Charge EXCEPT !.amount = <<9, 9>>,
                              !.gateway_response = "Declined", !.paid_at = Absent])],
     [text |-> "{\"event\":\"charge.failed\",\"data\":{\"reference\":\"SUB_1_x7\",\"amount\":100,\"gateway_response\":\"Declined\",\"customer\":{\"email\":\"thandi@example.com\",\"first_name\":\"Thandi\",\"last_name\":\"Nkosi\"}}}",
      parsed |-> EventOf("charge.failed", [Charge EXCEPT !.amount = <<1, 0, 0>>,
                              !.gateway_response = "Declined", !.paid_at = Absent])],
     [text |-> "{\"event\":\"charge.failed\",\"data\":{\"reference\":\"SUB_1_x7\",\"amount\":1999,\"gateway_response\":\"Declined\",\"customer\":{\"email\":\"thandi@example.com\",\"first_name\":\"Thandi\",\"last_name\":\"Nkosi\"}}}",
      parsed |-> EventOf("charge.failed", [Charge EXCEPT !.amount = <<1, 9, 9, 9>>,
                              !.gateway_response = "Declined", !.paid_at = Absent])],
     [text |-> "{\"event\":\"charge.failed\",\"data\":{\"reference\":\"SUB_1_x7\",\"amount\":3990000,\"gateway_response\":\"Declined\",\"customer\":{\"email\":\"thandi@example.com\",\"first_name\":\"Thandi\",\"last_name\":\"Nkosi\"}}}",
      parsed |-> EventOf("charge.failed", [Charge EXCEPT !.amount = <<3, 9, 9, 0, 0, 0, 0>>,
                              !.gateway_response = "Declined", !.paid_at = Absent])],
     [text |-> "{\"event\":\"charge.failed\",\"data\":{\"reference\":\"SUB_1_x7\",\"amount\":7036874417766399,\"gateway_response\":\"Declined\",\"customer\":{\"email\":\"thandi@example.com\",\"first_name\":\"Thandi\",\"last_name\":\"Nkosi\"}}}",
      parsed |-> EventOf("charge.failed", [Charge EXCEPT !.amount = <<7, 0, 3, 6, 8, 7, 4, 4, 1, 7, 7, 6, 6, 3, 9, 9>>,
                              !.gateway_response = "Declined", !.paid_at = Absent])],
     [text |-> "{\"event\":\"charge.failed\",\"data\":{\"reference\":\"SUB_1_x7\",\"amount\":7036874417766401,\"gateway_response\":\"Declined\",\"customer\":{\"email\":\"thandi@example.com\",\"first_name\":\"Thandi\",\"last_name\":\"Nkosi\"}}}",
      parsed |-> EventOf("charge.failed", [Charge EXCEPT !.amount = <<7, 0, 3, 6, 8, 7, 4, 4, 1, 7, 7, 6, 6, 4, 0, 1>>,
                              !.gateway_response = "Declined", !.paid_at = Absent])] >>

BodyIndex(text) == CHOOSE i \in 1..Len(BodyCatalogue) : BodyCatalogue[i].text = text

BodyTexts == {BodyCatalogue[i].text : i \in 1..Len(BodyCatalogue)}

\* JSON.parse(body)
JSONParse(text) == BodyCatalogue[BodyIndex(text)].parsed

(***************************************************************************)
(* Hex digests                                                             *)
(***************************************************************************)

HexDigits == <<"0","1","2","3","4","5","6","7","8","9","a","b","c","d","e","f">>

RECURSIVE Pow16(_)
Pow16(n) == IF n = 0 THEN 1 ELSE 16 * Pow16(n - 1)

\* n written with len lower-case hex characters, as a sequence of characters
RECURSIVE NatToHex(_, _)
NatToHex(n, len) ==
  IF len = 0 THEN <<>>
  ELSE Append(NatToHex(n \div 16, len - 1), HexDigits[(n % 16) + 1])

AllKeys == {"", "sk_test_shegymz", ForeignKey}

KeyIndex(key) == CASE key = "" -> 0 [] key = "sk_test_shegymz" -> 1 [] OTHER -> 2

\* crypto.createHmac('sha512', key).update(payload).digest('hex'): a keyed
\* hash without collisions on the keys and payloads of the model, in
\* lower-case hex
HmacSha512Hex(key, payload) ==
  NatToHex(((KeyIndex(key) * Len(BodyCatalogue) + BodyIndex(payload) - 1) * 37 + 171)
             % Pow16(HexLen), HexLen)

UpperChar(c) ==
  CASE c = "a" -> "A" [] c = "b" -> "B" [] c = "c" -> "C" [] c = "d" -> "D"
    [] c = "e" -> "E" [] c = "f" -> "F" [] OTHER -> c

LowerChar(c) ==
  CASE c = "A" -> "a" [] c = "B" -> "b" [] c = "C" -> "c" [] c = "D" -> "d"
    [] c = "E" -> "e" [] c = "F" -> "f" [] OTHER -> c

UpperCase(s) == [i \in 1..Len(s) |-> UpperChar(s[i])]
LowerCase(s) == [i \in 1..Len(s) |-> LowerChar(s[i])]

\* s with its last character replaced by another hex digit
OneCharOff(s) ==
  IF s = <<>> THEN <<"0">>
  ELSE [s EXCEPT ![Len(s)] = IF s[Len(s)] = "0" THEN "1" ELSE "0"]

VerifyWebhookUnkeyed(payload, signature, key) ==
  HmacSha512Hex("", payload) = signature

VerifyWebhookIgnoringCase(payload, signature, key) ==
  LowerCase(HmacSha512Hex(key, payload)) = LowerCase(signature)

VerifyWebhookRequiringKey(payload, signature, key) ==
  key # "" /\ HmacSha512Hex(key, payload) = signature

\* verifyPaystackWebhook(payload, signature): hash === signature
verifyPaystackWebhook(payload, signature, key) ==
  HmacSha512Hex(key, payload) = signature

(***************************************************************************)
(* Gateway client (src/src/lib/paystack.ts)                                *)
(***************************************************************************)

\* what axios gives back for GET /transaction/verify/:reference: it throws
\* (network error or error status), or resolves with response.data =
\* {status, data: {status: state, amount, customer: {email}}}; hasData =
\* FALSE is a body without data.  The transaction the gateway reports is
\* that of the payload, or one of another amount and customer.
VerifyReplies ==
  {[threw |-> TRUE, status |-> FALSE, hasData |-> FALSE, state |-> Absent,
    amount |-> <<>>, email |-> Absent]}
  \cup {[threw |-> FALSE, status |-> st, hasData |-> TRUE, state |-> s,
          amount |-> Charge.amount, email |-> Thandi.email] :
          st \in BOOLEAN, s \in {"success", "failed", "abandoned"}}
  \cup {[threw |-> FALSE, status |-> TRUE, hasData |-> TRUE, state |-> "success",
          amount |-> <<1, 0, 0>>, email |-> "sipho@example.com"]}
  \cup {[threw |-> FALSE, status |-> st, hasData |-> FALSE, state |-> Absent,
          amount |-> <<>>, email |-> Absent] :
          st \in BOOLEAN}

verifyPaystackTransactionStatusOnly(reply) ==
  IF reply.threw THEN [success |-> FALSE, status |-> Absent]
  ELSE IF reply.status
       THEN IF ~reply.hasData THEN [success |-> FALSE, status |-> Absent]
            ELSE [success |-> TRUE, status |-> reply.state]
       ELSE [success |-> FALSE, status |-> Absent]

verifyPaystackTransactionAssumingPaid(reply) ==
  IF reply.threw THEN [success |-> TRUE, status |-> "success"]
  ELSE IF reply.status
       THEN IF ~reply.hasData THEN [success |-> FALSE, status |-> Absent]
            ELSE IF reply.state = "success"
                 THEN [success |-> TRUE, status |-> reply.state]
                 ELSE [success |-> FALSE, status |-> Absent]
       ELSE [success |-> FALSE, status |-> Absent]

\* verifyPaystackTransaction(reference), given the gateway's reply: the
\* result {success, data} with status = data?.status.  Reading
\* response.data.data.status of a body without data throws inside the try.
verifyPaystackTransaction(reply) ==
  IF reply.threw THEN [success |-> FALSE, status |-> Absent]
  ELSE IF reply.status
       THEN IF ~reply.hasData THEN [success |-> FALSE, status |-> Absent]
            ELSE IF reply.state = "success"
                 THEN [success |-> TRUE, status |-> reply.state]
                 ELSE [success |-> FALSE, status |-> Absent]
       ELSE [success |-> FALSE, status |-> Absent]

\* the replies to POST /customer of enableRecurringSubscription
EnableCustomerReplies ==
  {[threw |-> TRUE, hasData |-> FALSE, customer_code |-> Absent],
   [threw |-> FALSE, hasData |-> FALSE, customer_code |-> Absent],
   [threw |-> FALSE, hasData |-> TRUE, customer_code |-> "CUS_thandi"]}

\* the replies to POST /subscription
SubscriptionReplies ==
  {[threw |-> TRUE, status |-> FALSE, subscription_code |-> Absent],
   [threw |-> FALSE, status |-> FALSE, subscription_code |-> Absent],
   [threw |-> FALSE, status |-> TRUE, subscription_code |-> "SUB_code_77"]}

\* createPaystackSubscription(customerCode, planCode), given the reply
createPaystackSubscription(reply) ==
  IF ~reply.threw /\ reply.status
  THEN [success |-> TRUE, subscription_code |-> reply.subscription_code]
  ELSE [success |-> FALSE, subscription_code |-> Absent]

(***************************************************************************)
(* Numbers: the binary64 division and Number.prototype.toFixed of          *)
(* formatPaystackAmount, computed exactly on integers below 10^21 that     *)
(* are held as three limbs of seven decimal digits                         *)
(***************************************************************************)

\* the element of a set of one element; a value bound as v \in {e} is
\* computed once however often v is used
The(S) == CHOOSE v \in S : TRUE

\* the limbs of the integer whose decimal digits are d
FromDigits(d) ==
  LET D(v, k) == IF k < Len(v) THEN v[Len(v) - k] ELSE 0
      Limb(v, j) == D(v, 7 * j) + 10 * D(v, 7 * j + 1) + 100 * D(v, 7 * j + 2)
                      + 1000 * D(v, 7 * j + 3) + 10000 * D(v, 7 * j + 4)
                      + 100000 * D(v, 7 * j + 5) + 1000000 * D(v, 7 * j + 6)
  IN The({[hi |-> Limb(v, 2), mid |-> Limb(v, 1), lo |-> Limb(v, 0)] : v \in {d}})

\* the seven decimal digits of a limb
LimbDigits(v) ==
  << v \div 1000000, (v \div 100000) % 10, (v \div 10000) % 10,
     (v \div 1000) % 10, (v \div 100) % 10, (v \div 10) % 10, v % 10 >>

\* the decimal digits of n, without leading zeros
ToDigits(n) ==
  The({ The({SubSeq(all, first, Len(all)) :
               first \in {IF \A i \in 1..Len(all) : all[i] = 0 THEN Len(all)
                          ELSE CHOOSE i \in 1..Len(all) :
                                 all[i] # 0 /\ \A j \in 1..(i - 1) : all[j] = 0}}) :
        all \in {The({LimbDigits(v.hi) \o LimbDigits(v.mid) \o LimbDigits(v.lo) :
                        v \in {n}})} })

\* n * k for k <= 100
Times(n, k) ==
  The({ The({ The({[hi |-> v.hi * k + mid \div 10000000,
                    mid |-> mid % 10000000, lo |-> lo % 10000000] :
                     mid \in {v.mid * k + lo \div 10000000}}) :
              lo \in {v.lo * k}}) :
        v \in {n} })

Plus(a, b) ==
  The({ The({ The({[hi |-> v[1].hi + v[2].hi + mid \div 10000000,
                    mid |-> mid % 10000000, lo |-> lo % 10000000] :
                     mid \in {v[1].mid + v[2].mid + lo \div 10000000}}) :
              lo \in {v[1].lo + v[2].lo}}) :
        v \in {<<a, b>>} })

\* floor(n / k) for k <= 100
Quotient(n, k) ==
  The({ The({ The({[hi |-> v.hi \div k, mid |-> mid \div k, lo |-> lo \div k] :
                     lo \in {(mid % k) * 10000000 + v.lo}}) :
              mid \in {(v.hi % k) * 10000000 + v.mid}}) :
        v \in {n} })

\* n mod k for k <= 100
Remainder(n, k) ==
  The({((((v.hi % k) * 10000000 + v.mid) % k) * 10000000 + v.lo) % k : v \in {n}})

Less(a, b) ==
  \E v \in {<<a, b>>} :
    \/ v[1].hi < v[2].hi
    \/ v[1].hi = v[2].hi /\ v[1].mid < v[2].mid
    \/ v[1].hi = v[2].hi /\ v[1].mid = v[2].mid /\ v[1].lo < v[2].lo

\* 2^s, six bits at a time
RECURSIVE TwoTo(_)
TwoTo(s) ==
  IF s = 0 THEN [hi |-> 0, mid |-> 0, lo |-> 1]
  ELSE IF s >= 6 THEN Times(TwoTo(s - 6), 64)
  ELSE Times(TwoTo(s - 1), 2)

\* floor(n / 2^s), six bits at a time
RECURSIVE ShiftRight(_, _)
ShiftRight(n, s) ==
  The({ IF v[2] = 0 THEN v[1]
        ELSE IF v[2] >= 6 THEN ShiftRight(Quotient(v[1], 64), v[2] - 6)
        ELSE ShiftRight(Quotient(v[1], 2), v[2] - 1) :
        v \in {<<n, s>>} })

\* 2^52, the least significand of 53 bits of a binary64 number
LeastSignificand == FromDigits(<<4, 5, 0, 3, 5, 9, 9, 6, 2, 7, 3, 7, 0, 4, 9, 6>>)

\* 2^46
SixBitsBelow == FromDigits(<<7, 0, 3, 6, 8, 7, 4, 4, 1, 7, 7, 6, 6, 4>>)

\* the least shift s for which numerator * 2^s / 100 has 53 bits, reached
\* six bits at a time while that stays below
RECURSIVE Scale(_, _)
Scale(numerator, s) ==
  The({ The({ IF ~Less(q, LeastSignificand) THEN [numerator |-> v[1], shift |-> v[2]]
              ELSE IF Less(q, SixBitsBelow) THEN Scale(Times(v[1], 64), v[2] + 6)
              ELSE Scale(Times(v[1], 2), v[2] + 1) :
              q \in {Quotient(v[1], 100)} }) :
        v \in {<<numerator, s>>} })

\* amountInKobo / 100 for an integer below 2^53: the binary64 number
\* nearest to the quotient (ties to even), as significand / 2^shift
DividedBy100(amountInKobo) ==
  The({ IF a = <<0>> THEN [significand |-> FromDigits(<<0>>), shift |-> 1]
        ELSE The({ The({ The({
               [significand |->
                  IF 2 * r > 100 \/ (2 * r = 100 /\ q.lo % 2 = 1)
                  THEN Plus(q, FromDigits(<<1>>)) ELSE q,
                shift |-> scaled.shift] :
               r \in {Remainder(scaled.numerator, 100)} }) :
               q \in {Quotient(scaled.numerator, 100)} }) :
               scaled \in {Scale(FromDigits(a), 0)} }) :
        a \in {amountInKobo} })

DigitChar(d) == HexDigits[d + 1]

\* x.toFixed(2) for x >= 0 below 10^21: the integer n with n / 100 nearest
\* to x (the larger of two), written with at least three digits and a
\* point before the last two
toFixed2(x) ==
  The({ The({ The({
     [i \in 1..(Len(m) + 1) |->
        IF i <= Len(m) - 2 THEN DigitChar(m[i])
        ELSE IF i = Len(m) - 1 THEN "." ELSE DigitChar(m[i - 1])] :
     m \in {CASE Len(n) = 1 -> <<0, 0>> \o n
              [] Len(n) = 2 -> <<0>> \o n
              [] OTHER -> n} }) :
     n \in {ToDigits(ShiftRight(Plus(Times(v.significand, 100), TwoTo(v.shift - 1)),
                                v.shift))} }) :
     v \in {x} })

\* formatPaystackAmount(amountInKobo): `R${(amountInKobo / 100).toFixed(2)}`
\* as a sequence of characters; an absent amount gives NaN
formatPaystackAmount(amountInKobo) ==
  The({ IF a = <<>> THEN <<"R", "N", "a", "N">>
        ELSE <<"R">> \o toFixed2(DividedBy100(a)) :
        a \in {amountInKobo} })

\* new Date(paid_at).toLocaleDateString('en-ZA', {year, month: 'long', day})
toLocaleDateString(paid_at) ==
  IF paid_at = "2025-01-15T10:00:00Z" THEN "15 January 2025" ELSE "Invalid Date"

(***************************************************************************)
(* State of a request                                                      *)
(***************************************************************************)

NoSignature == [present |-> FALSE, value |-> <<>>]

NoJson == [kind |-> "none", name |-> Absent, email |-> Absent, phone |-> Absent]

NoRequest == [endpoint |-> "none", body |-> Absent, signature |-> NoSignature,
              json |-> NoJson]

\* no reply of the gateway yet
NoReply == [threw |-> FALSE, status |-> FALSE, hasData |-> FALSE, state |-> Absent,
            amount |-> <<>>, email |-> Absent]

NoResult == [success |-> FALSE, code |-> Absent, url |-> Absent, error |-> Absent]

\* no reply to POST /customer, GET /customer/:email or
\* POST /transaction/initialize yet
NoCreateReply == [threw |-> FALSE, status |-> FALSE, hasData |-> FALSE,
                  message |-> Absent, customer_code |-> Absent]

NoFetchReply == [threw |-> FALSE, status |-> FALSE, hasData |-> FALSE,
                 customer_code |-> Absent]

NoInitializeReply == [threw |-> FALSE, status |-> FALSE, hasData |-> FALSE,
                      message |-> Absent, authorization_url |-> Absent,
                      reference |-> Absent]

NoLocal == [signature |-> "unchecked", event |-> NoEvent,
            verification |-> [done |-> FALSE, success |-> FALSE, status |-> Absent,
                              reply |-> NoReply],
            subscriptionResult |-> NoResult, customerResult |-> NoResult,
            paystackResult |-> NoResult,
            create |-> [done |-> FALSE, reply |-> NoCreateReply],
            fetch |-> [done |-> FALSE, reply |-> NoFetchReply],
            initialize |-> [done |-> FALSE, reply |-> NoInitializeReply]]

NoResponse == [sent |-> FALSE, status |-> 0, body |-> {}]

NoMail == [kind |-> Absent, to |-> Absent, name |-> Absent, amount |-> <<>>,
           paymentDate |-> Absent, subscriptionToken |-> Absent,
           reference |-> Absent, cardLast4 |-> Absent, cardType |-> Absent,
           reason |-> Absent, paymentLink |-> Absent, state |-> "pending",
           provider |-> "none"]

\* an entry of a request's trace
Ev(op, api, arg, res) == [op |-> op, api |-> api, arg |-> arg, res |-> res]

\* NextResponse.json(body, {status})
Json(status, body) == [sent |-> TRUE, status |-> status, body |-> body]

Init ==
  /\ env \in Envs
  /\ pc = [r \in Req |-> "idle"]
  /\ request = [r \in Req |-> NoRequest]
  /\ local = [r \in Req |-> NoLocal]
  /\ trace = [r \in Req |-> <<>>]
  /\ emails = [r \in Req |-> <<>>]
  /\ response = [r \in Req |-> NoResponse]

(***************************************************************************)
(* POST /api/webhook/paystack (src/src/app/api/webhook/paystack/route.ts)  *)
(***************************************************************************)

\* the signature headers a request for a body may carry: none, the empty
\* string, a digest of the body under each key, the digest of another body,
\* and the right digest in upper case or with one character changed
SignatureChoices(body, key) ==
  {NoSignature, [present |-> TRUE, value |-> <<>>]}
  \cup {[present |-> TRUE, value |-> HmacSha512Hex(k, body)] : k \in AllKeys}
  \cup {[present |-> TRUE, value |-> HmacSha512Hex(key, "not json")],
        [present |-> TRUE, value |-> UpperCase(HmacSha512Hex(key, body))],
        [present |-> TRUE, value |-> OneCharOff(HmacSha512Hex(key, body))]}

\* the requests of the second slot, which accompanies the first
CompanionWebhookInputs(key) ==
  {[endpoint |-> "webhook", body |-> BodyCatalogue[i].text, signature |-> s, json |-> NoJson] :
     i \in {5, 7},
     s \in {NoSignature,
            [present |-> TRUE, value |-> HmacSha512Hex(ForeignKey, "not json")]}}
  \cup {[endpoint |-> "webhook", body |-> BodyCatalogue[i].text,
         signature |-> [present |-> TRUE, value |-> HmacSha512Hex(key, BodyCatalogue[i].text)],
         json |-> NoJson] : i \in {5, 7}}

WebhookInputs(key) ==
  UNION {{[endpoint |-> "webhook", body |-> b, signature |-> s, json |-> NoJson] :
            s \in SignatureChoices(b, key)} : b \in BodyTexts}

\* !signature
SignatureMissing(signature) == ~signature.present \/ signature.value = <<>>

\* reading event.data.reference and event.data.customer.email for the log
\* line throws a TypeError when event is null, or data or customer is absent
LogLineThrows(event) ==
  event.isNull \/ ~event.data.present \/ ~event.data.customer.present

BranchOnce(kind) ==
  IF \E q \in Req : \E i \in 1..Len(trace[q]) : trace[q][i].op = "handler"
  THEN "log"
  ELSE CASE kind = "charge.success" -> "handlePaymentSuccess"
         [] kind = "charge.failed" -> "handlePaymentFailed"
         [] OTHER -> "log"

BranchFallingThrough(kind) ==
  CASE kind = "charge.success" -> "handlePaymentSuccess"
    [] kind = "charge.failed" -> "handlePaymentFailed"
    [] kind = "subscription.create" -> "handlePaymentSuccess"
    [] kind = "subscription.disable" -> "log"
    [] OTHER -> "log"

\* switch (event.event)
Branch(kind) ==
  CASE kind = "charge.success" -> "handlePaymentSuccess"
    [] kind = "charge.failed" -> "handlePaymentFailed"
    [] kind = "subscription.create" -> "log"
    [] kind = "subscription.disable" -> "log"
    [] OTHER -> "log"

RejectedUnauthorized(missing) ==
  IF missing THEN Json(401, {<<"error", "No signature provided">>})
  ELSE Json(400, {<<"error", "Invalid signature">>})

\* the two rejections of POST
Rejected(missing) ==
  IF missing THEN Json(400, {<<"error", "No signature provided">>})
  ELSE Json(400, {<<"error", "Invalid signature">>})

\* return NextResponse.json({ received: true })
Acknowledged == Json(200, {<<"received", "true">>})

ProcessingErrorRefused == Json(400, {<<"error", "Processing error">>})

\* the catch of POST: NextResponse.json({ received: true, error: 'Processing error' })
ProcessingError ==
  Json(200, {<<"received", "true">>, <<"error", "Processing error">>})

VerificationFailedOrSeenBefore(verification) ==
  \/ ~verification.success
  \/ verification.status # "success"
  \/ \E q \in Req : Len(emails[q]) > 0 /\ emails[q][1].kind = "payment-confirmed"

VerificationIgnored(verification) == FALSE

\* !verification.success || verification.data?.status !== 'success'
VerificationFailed(verification) ==
  ~verification.success \/ verification.status # "success"

PaymentFailedEmailsRawReason(event) ==
  << [NoMail EXCEPT
        !.kind = "payment-failed",
        !.to = event.data.customer.email,
        !.name = <<event.data.customer.first_name, event.data.customer.last_name>>,
        !.amount = formatPaystackAmount(event.data.amount),
        !.reference = event.data.reference,
        !.reason = event.data.gateway_response] >>

\* the emailData of handlePaymentFailed and the email it starts
PaymentFailedEmails(event) ==
  << [NoMail EXCEPT
        !.kind = "payment-failed",
        !.to = event.data.customer.email,
        !.name = <<event.data.customer.first_name, event.data.customer.last_name>>,
        !.amount = formatPaystackAmount(event.data.amount),
        !.reference = event.data.reference,
        !.reason = OrElse(event.data.gateway_response, "Payment could not be processed")] >>

\* the emailData of handlePaymentSuccess and the two emails it starts
PaymentSuccessEmails(event, e) ==
  LET emailData ==
        [NoMail EXCEPT
           !.name = <<event.data.customer.first_name, event.data.customer.last_name>>,
           !.amount = formatPaystackAmount(event.data.amount),
           !.paymentDate = toLocaleDateString(event.data.paid_at),
           !.subscriptionToken = OrElse(event.data.authorization.authorization_code,
                                        event.data.reference),
           !.reference = event.data.reference,
           !.cardLast4 = event.data.authorization.last4,
           !.cardType = event.data.authorization.card_type]
  IN << [emailData EXCEPT !.kind = "payment-confirmed", !.to = event.data.customer.email],
        [emailData EXCEPT !.kind = "payment-received", !.to = adminEmail(e)] >>

\* the trace entries of starting the sends of a sequence of emails
RECURSIVE EmailEvents(_)
EmailEvents(mails) ==
  IF mails = <<>> THEN <<>>
  ELSE <<Ev("email", Head(mails).kind, Head(mails).to, "started")>> \o EmailEvents(Tail(mails))

\* a request arrives at the webhook endpoint
WebhookArrives(r) ==
  /\ pc[r] = "idle"
  /\ \E in \in IF r \in Solo THEN WebhookInputs(PAYSTACK_SECRET_KEY(env))
                ELSE CompanionWebhookInputs(PAYSTACK_SECRET_KEY(env)) :
        request' = [request EXCEPT ![r] = in]
  /\ pc' = [pc EXCEPT ![r] = "POST"]
  /\ UNCHANGED <<env, local, trace, emails, response>>

\* POST from its start to its first await that leaves the function (the
\* gateway call of handlePaymentSuccess), or to the return of
\* handlePaymentFailed, or to its response
WebhookPOST(r) ==
  /\ pc[r] = "POST"
  /\ request[r].endpoint = "webhook"
  /\ LET body == request[r].body
         signature == request[r].signature
         isValidSignature ==
           verifyPaystackWebhook(body, signature.value, PAYSTACK_SECRET_KEY(env))
         event == JSONParse(body)
         checked == <<Ev("verifyPaystackWebhook", "", "", IF isValidSignature THEN "true" ELSE "false")>>
     IN
       IF SignatureMissing(signature)
       THEN /\ response' = [response EXCEPT ![r] = Rejected(TRUE)]
            /\ local' = [local EXCEPT ![r].signature = "missing"]
            /\ pc' = [pc EXCEPT ![r] = "done"]
            /\ UNCHANGED <<trace, emails>>
       ELSE IF ~isValidSignature
       THEN /\ response' = [response EXCEPT ![r] = Rejected(FALSE)]
            /\ local' = [local EXCEPT ![r].signature = "invalid"]
            /\ trace' = [trace EXCEPT ![r] = @ \o checked]
            /\ pc' = [pc EXCEPT ![r] = "done"]
            /\ UNCHANGED emails
       ELSE IF event.threw
       THEN /\ response' = [response EXCEPT ![r] = ProcessingError]
            /\ local' = [local EXCEPT ![r].signature = "valid"]
            /\ trace' = [trace EXCEPT ![r] = @ \o checked \o <<Ev("JSON.parse", "", "", "throw")>>]
            /\ pc' = [pc EXCEPT ![r] = "done"]
            /\ UNCHANGED emails
       ELSE IF LogLineThrows(event)
       THEN /\ response' = [response EXCEPT ![r] = ProcessingError]
            /\ local' = [local EXCEPT ![r].signature = "valid", ![r].event = event]
            /\ trace' = [trace EXCEPT ![r] = @ \o checked \o <<Ev("JSON.parse", "", "", "ok")>>]
            /\ pc' = [pc EXCEPT ![r] = "done"]
            /\ UNCHANGED emails
       ELSE
         LET parsed == checked \o <<Ev("JSON.parse", "", "", "ok")>>
             branch == Branch(event.event)
         IN /\ local' = [local EXCEPT ![r].signature = "valid", ![r].event = event]
            /\ CASE branch = "handlePaymentSuccess" ->
                     /\ trace' = [trace EXCEPT ![r] = @ \o parsed \o
                          << Ev("handler", "handlePaymentSuccess", "", ""),
                             Ev("call", "GET /transaction/verify", event.data.reference, "") >>]
                     /\ pc' = [pc EXCEPT ![r] = "verifyPaystackTransaction"]
                     /\ UNCHANGED <<emails, response>>
                 [] branch = "handlePaymentFailed" ->
                     /\ trace' = [trace EXCEPT ![r] = @ \o parsed \o
                          <<Ev("handler", "handlePaymentFailed", "", "")>> \o
                          EmailEvents(PaymentFailedEmails(event))]
                     /\ emails' = [emails EXCEPT ![r] = @ \o PaymentFailedEmails(event)]
                     /\ pc' = [pc EXCEPT ![r] = "respond"]
                     /\ UNCHANGED response
                 [] OTHER ->
                     /\ trace' = [trace EXCEPT ![r] = @ \o parsed \o
                          <<Ev("log", event.event, "", "")>>]
                     /\ response' = [response EXCEPT ![r] = Acknowledged]
                     /\ pc' = [pc EXCEPT ![r] = "done"]
                     /\ UNCHANGED emails
  /\ UNCHANGED <<env, request>>

StartConfirmationEmailsFromVerification(r) ==
  LET verified == local'[r].verification.reply
      mails == PaymentSuccessEmails(
                 [local[r].event EXCEPT !.data.amount = verified.amount,
                                        !.data.customer.email = verified.email], env)
  IN /\ emails' = [emails EXCEPT ![r] = @ \o mails]
     /\ pc' = [pc EXCEPT ![r] = "respond"]
     /\ UNCHANGED response

\* handlePaymentSuccess from the confirmation emails on (lines 162-185):
\* the two sends are started, then the handler returns to POST
StartConfirmationEmails(r) ==
  LET mails == PaymentSuccessEmails(local[r].event, env)
  IN /\ emails' = [emails EXCEPT ![r] = @ \o mails]
     /\ pc' = [pc EXCEPT ![r] = "respond"]
     /\ UNCHANGED response

VerifyTransactionReturnsWithoutAwait(r) ==
  /\ pc[r] = "verifyPaystackTransaction"
  /\ \E reply \in VerifyReplies :
       LET verification == verifyPaystackTransaction(reply)
           event == local[r].event
           returned == <<Ev("return", "GET /transaction/verify", event.data.reference,
                            IF verification.success THEN "success" ELSE "failure")>>
           enabling == IF Truthy(event.data.authorization.authorization_code)
                       THEN <<Ev("call", "POST /customer", event.data.customer.email, "")>>
                       ELSE <<>>
       IN /\ local' = [local EXCEPT ![r].verification =
                         [done |-> TRUE, success |-> verification.success,
                          status |-> verification.status, reply |-> reply]]
          /\ IF VerificationFailed(verification)
             THEN /\ trace' = [trace EXCEPT ![r] = @ \o returned]
                  /\ pc' = [pc EXCEPT ![r] = "respond"]
                  /\ UNCHANGED <<emails, response>>
             ELSE /\ trace' = [trace EXCEPT ![r] = @ \o returned \o enabling \o
                        EmailEvents(PaymentSuccessEmails(event, env))]
                  /\ StartConfirmationEmails(r)
  /\ UNCHANGED <<env, request>>

\* the gateway answers GET /transaction/verify: verifyPaystackTransaction
\* returns and handlePaymentSuccess runs on to its next await or its return
VerifyTransactionReturns(r) ==
  /\ pc[r] = "verifyPaystackTransaction"
  /\ \E reply \in VerifyReplies :
       LET verification == verifyPaystackTransaction(reply)
           event == local[r].event
           returned == <<Ev("return", "GET /transaction/verify", event.data.reference,
                            IF verification.success THEN "success" ELSE "failure")>>
       IN /\ local' = [local EXCEPT ![r].verification =
                         [done |-> TRUE, success |-> verification.success,
                          status |-> verification.status, reply |-> reply]]
          /\ IF VerificationFailed(verification)
             THEN /\ trace' = [trace EXCEPT ![r] = @ \o returned]
                  /\ pc' = [pc EXCEPT ![r] = "respond"]
                  /\ UNCHANGED <<emails, response>>
             ELSE IF Truthy(event.data.authorization.authorization_code)
             THEN /\ trace' = [trace EXCEPT ![r] = @ \o returned \o
                        <<Ev("call", "POST /customer", event.data.customer.email, "")>>]
                  /\ pc' = [pc EXCEPT ![r] = "enableRecurringSubscription"]
                  /\ UNCHANGED <<emails, response>>
             ELSE /\ trace' = [trace EXCEPT ![r] = @ \o returned \o
                        EmailEvents(PaymentSuccessEmails(event, env))]
                  /\ StartConfirmationEmails(r)
  /\ UNCHANGED <<env, request>>

EnableCustomerReturnsUncaught(r) ==
  /\ pc[r] = "enableRecurringSubscription"
  /\ \E reply \in EnableCustomerReplies :
       LET event == local[r].event
           planCode == env.PAYSTACK_PLAN_CODE
           failed == reply.threw \/ ~reply.hasData
           returned == <<Ev("return", "POST /customer", event.data.customer.email,
                            IF failed THEN "failure" ELSE "success")>>
       IN IF failed
          THEN /\ local' = [local EXCEPT ![r].subscriptionResult =
                     [NoResult EXCEPT !.error = "Failed to enable recurring subscription"]]
               /\ trace' = [trace EXCEPT ![r] = @ \o returned]
               /\ pc' = [pc EXCEPT ![r] = "done"]
               /\ UNCHANGED <<emails, response>>
          ELSE IF Truthy(planCode)
          THEN /\ local' = [local EXCEPT ![r].customerResult =
                     [NoResult EXCEPT !.success = TRUE, !.code = reply.customer_code]]
               /\ trace' = [trace EXCEPT ![r] = @ \o returned \o
                     <<Ev("call", "POST /subscription", planCode, "")>>]
               /\ pc' = [pc EXCEPT ![r] = "createPaystackSubscription"]
               /\ UNCHANGED <<emails, response>>
          ELSE /\ local' = [local EXCEPT ![r].subscriptionResult =
                     [NoResult EXCEPT !.success = TRUE,
                        !.code = event.data.authorization.authorization_code]]
               /\ trace' = [trace EXCEPT ![r] = @ \o returned \o
                     EmailEvents(PaymentSuccessEmails(event, env))]
               /\ StartConfirmationEmails(r)
  /\ UNCHANGED <<env, request>>

\* the gateway answers the POST /customer of enableRecurringSubscription
EnableCustomerReturns(r) ==
  /\ pc[r] = "enableRecurringSubscription"
  /\ \E reply \in EnableCustomerReplies :
       LET event == local[r].event
           planCode == env.PAYSTACK_PLAN_CODE
           \* customerResponse.data.data.customer_code throws without data
           failed == reply.threw \/ ~reply.hasData
           returned == <<Ev("return", "POST /customer", event.data.customer.email,
                            IF failed THEN "failure" ELSE "success")>>
       IN IF failed
          THEN /\ local' = [local EXCEPT ![r].subscriptionResult =
                     [NoResult EXCEPT !.error = "Failed to enable recurring subscription"]]
               /\ trace' = [trace EXCEPT ![r] = @ \o returned \o
                     EmailEvents(PaymentSuccessEmails(event, env))]
               /\ StartConfirmationEmails(r)
          ELSE IF Truthy(planCode)
          THEN /\ local' = [local EXCEPT ![r].customerResult =
                     [NoResult EXCEPT !.success = TRUE, !.code = reply.customer_code]]
               /\ trace' = [trace EXCEPT ![r] = @ \o returned \o
                     <<Ev("call", "POST /subscription", planCode, "")>>]
               /\ pc' = [pc EXCEPT ![r] = "createPaystackSubscription"]
               /\ UNCHANGED <<emails, response>>
          ELSE /\ local' = [local EXCEPT ![r].subscriptionResult =
                     [NoResult EXCEPT !.success = TRUE,
                        !.code = event.data.authorization.authorization_code]]
               /\ trace' = [trace EXCEPT ![r] = @ \o returned \o
                     EmailEvents(PaymentSuccessEmails(event, env))]
               /\ StartConfirmationEmails(r)
  /\ UNCHANGED <<env, request>>

\* the gateway answers POST /subscription: createPaystackSubscription
\* returns, then enableRecurringSubscription (lines 435-447)
CreateSubscriptionReturns(r) ==
  /\ pc[r] = "createPaystackSubscription"
  /\ \E reply \in SubscriptionReplies :
       LET event == local[r].event
           subscriptionResult == createPaystackSubscription(reply)
       IN /\ local' = [local EXCEPT ![r].subscriptionResult =
                IF subscriptionResult.success
                THEN [NoResult EXCEPT !.success = TRUE,
                        !.code = subscriptionResult.subscription_code]
                ELSE [NoResult EXCEPT !.success = TRUE,
                        !.code = event.data.authorization.authorization_code]]
          /\ trace' = [trace EXCEPT ![r] = @ \o
                <<Ev("return", "POST /subscription", env.PAYSTACK_PLAN_CODE,
                     IF subscriptionResult.success THEN "success" ELSE "failure")>> \o
                EmailEvents(PaymentSuccessEmails(event, env))]
          /\ StartConfirmationEmails(r)
  /\ UNCHANGED <<env, request>>

WebhookRespondsAfterEmails(r) ==
  /\ pc[r] = "respond"
  /\ \A i \in 1..Len(emails[r]) : emails[r][i].state # "pending"
  /\ response' = [response EXCEPT ![r] = Acknowledged]
  /\ pc' = [pc EXCEPT ![r] = "done"]
  /\ UNCHANGED <<env, request, local, trace, emails>>

WebhookRespondsWithFailure(r) ==
  /\ pc[r] = "respond"
  /\ response' = [response EXCEPT ![r] =
        IF local[r].verification.done /\ ~local[r].verification.success
        THEN Json(500, {<<"error", "Payment verification failed">>})
        ELSE Acknowledged]
  /\ pc' = [pc EXCEPT ![r] = "done"]
  /\ UNCHANGED <<env, request, local, trace, emails>>

\* POST resumes after await handlePaymentSuccess / handlePaymentFailed and
\* returns NextResponse.json({ received: true })
WebhookResponds(r) ==
  /\ pc[r] = "respond"
  /\ response' = [response EXCEPT ![r] = Acknowledged]
  /\ pc' = [pc EXCEPT ![r] = "done"]
  /\ UNCHANGED <<env, request, local, trace, emails>>

(***************************************************************************)
(* Email functions (src/src/lib/email.ts)                                  *)
(***************************************************************************)

\* the email provider answers a send: plunk.emails.send resolves (ok) or
\* throws; the send function returns true or false and never throws, and
\* the caller holds no reference to the result
SendRethrows(ok) == IF ok THEN "sent" ELSE "threw"

\* the try/catch of a send function around await plunk.emails.send: it
\* returns true (sent) when the provider call resolves and false (failed)
\* when it throws
SendReturns(ok) == IF ok THEN "sent" ELSE "failed"

EmailSettlesWithRetry(r, i, ok) ==
  /\ i \in 1..Len(emails[r])
  /\ emails[r][i].state = "pending"
  /\ IF ok \/ Len(emails[r]) > 2
     THEN /\ emails' = [emails EXCEPT ![r][i].state = SendReturns(ok),
                                      ![r][i].provider = IF ok THEN "resolved" ELSE "threw"]
          /\ UNCHANGED trace
     ELSE /\ emails' = [emails EXCEPT ![r] =
                [@ EXCEPT ![i].state = SendReturns(ok), ![i].provider = "threw"]
                \o <<[emails[r][i] EXCEPT !.state = "pending", !.provider = "none"]>>]
          /\ trace' = [trace EXCEPT ![r] =
                @ \o <<Ev("email", emails[r][i].kind, emails[r][i].to, "started")>>]
  /\ UNCHANGED <<env, pc, request, local, response>>

EmailSettlesIntoHandler(r, i, ok) ==
  /\ i \in 1..Len(emails[r])
  /\ emails[r][i].state = "pending"
  /\ emails' = [emails EXCEPT ![r][i].state = SendReturns(ok),
                              ![r][i].provider = IF ok THEN "resolved" ELSE "threw"]
  /\ IF ~ok /\ pc[r] = "respond"
     THEN /\ response' = [response EXCEPT ![r] = ProcessingError]
          /\ pc' = [pc EXCEPT ![r] = "done"]
     ELSE UNCHANGED <<pc, response>>
  /\ UNCHANGED <<env, request, local, trace>>

EmailSettlesFailingFast(r, i, ok) ==
  /\ i \in 1..Len(emails[r])
  /\ emails[r][i].state = "pending"
  /\ emails' = [emails EXCEPT ![r] =
        [j \in 1..Len(emails[r]) |->
           IF j = i
           THEN [emails[r][j] EXCEPT !.state = SendReturns(ok),
                                     !.provider = IF ok THEN "resolved" ELSE "threw"]
           ELSE IF ~ok /\ emails[r][j].state = "pending"
           THEN [emails[r][j] EXCEPT !.state = "failed"]
           ELSE emails[r][j]]]
  /\ UNCHANGED <<env, pc, request, local, trace, response>>

\* the provider answers the send of the i-th email of r: the send function
\* returns, and nothing else of the request is touched
EmailSettles(r, i, ok) ==
  /\ i \in 1..Len(emails[r])
  /\ emails[r][i].state = "pending"
  /\ emails' = [emails EXCEPT ![r][i].state = SendReturns(ok),
                              ![r][i].provider = IF ok THEN "resolved" ELSE "threw"]
  /\ UNCHANGED <<env, pc, request, local, trace, response>>

(***************************************************************************)
(* POST /api/subscribe (src/unnamed/part_001) and                          *)
(* initializePaystackSubscription (src/src/lib/paystack.ts)                *)
(***************************************************************************)

\* the bodies of a subscribe request, as request.json() yields them: it
\* throws (invalid), yields null, or an object whose name, email and phone
\* are absent, empty or given
SubscribeInputs ==
  {[endpoint |-> "subscribe", body |-> Absent, signature |-> NoSignature,
    json |-> [NoJson EXCEPT !.kind = k]] : k \in {"invalid", "null"}}
  \cup
  {[endpoint |-> "subscribe", body |-> Absent, signature |-> NoSignature,
    json |-> [kind |-> "object", name |-> n, email |-> e, phone |-> p]] :
     n \in {Absent, "", "Thandi Nkosi"}, e \in {Absent, "", "thandi@example.com"},
     p \in {Absent, "", "0821234567"}}

CompanionSubscribeInputs ==
  {[endpoint |-> "subscribe", body |-> Absent, signature |-> NoSignature,
    json |-> [kind |-> "object", name |-> "Thandi Nkosi", email |-> "thandi@example.com",
              phone |-> p]] : p \in {Absent, "0821234567"}}

MissingOnlyAbsent(json) ==
  json.name = Absent \/ json.email = Absent \/ json.phone = Absent

\* !name || !email || !phone
MissingRequiredFields(json) ==
  ~Truthy(json.name) \/ ~Truthy(json.email) \/ ~Truthy(json.phone)

\* error.response?.data?.message?.includes('already exists')
IncludesAlreadyExists(message) == message = "Customer already exists"

\* the replies to POST /customer of createOrGetPaystackCustomer: axios
\* throws (with or without a message of the gateway) or resolves with
\* {status, message, data: {customer_code}}; hasData = FALSE is a body
\* without data
CustomerCreateReplies ==
  {[NoCreateReply EXCEPT !.threw = TRUE, !.message = m] :
     m \in {Absent, "Invalid key", "Customer already exists"}}
  \cup {[NoCreateReply EXCEPT !.message = m] : m \in {Absent, "Email is required"}}
  \cup {[NoCreateReply EXCEPT !.status = TRUE, !.message = "Customer created"]}
  \cup {[NoCreateReply EXCEPT !.status = TRUE, !.hasData = TRUE,
            !.message = "Customer created", !.customer_code = c] :
     c \in {Absent, "CUS_thandi"}}

\* the replies to GET /customer/:email: axios throws, or resolves with
\* {status, data: {customer_code}}, or with a body without data
CustomerFetchReplies ==
  {[NoFetchReply EXCEPT !.threw = TRUE],
   NoFetchReply,
   [NoFetchReply EXCEPT !.status = TRUE],
   [NoFetchReply EXCEPT !.status = TRUE, !.hasData = TRUE],
   [NoFetchReply EXCEPT !.status = TRUE, !.hasData = TRUE, !.customer_code = "CUS_thandi"]}

\* const reference = `SUB_${Date.now()}_${Math.random().toString(36).substring(7)}`
GeneratedReference == "SUB_1700000000000_x7k2p9"

\* the replies to POST /transaction/initialize: axios throws, or resolves
\* with a negative status, with a positive status and no data, or with a
\* positive status and the authorization URL and reference of the
\* transaction (the reference sent, or one of the gateway's own)
InitializeReplies ==
  {[NoInitializeReply EXCEPT !.threw = TRUE, !.message = m] : m \in {Absent, "Invalid amount"}}
  \cup {[NoInitializeReply EXCEPT !.message = m] : m \in {Absent, "Invalid amount"}}
  \cup {[NoInitializeReply EXCEPT !.status = TRUE, !.message = "Authorization URL created"]}
  \cup {[NoInitializeReply EXCEPT !.status = TRUE, !.hasData = TRUE,
            !.message = "Authorization URL created",
            !.authorization_url = "https://checkout.paystack.com/abc",
            !.reference = GeneratedReference],
         [NoInitializeReply EXCEPT !.status = TRUE, !.hasData = TRUE,
            !.message = "Authorization URL created",
            !.authorization_url = "https://checkout.paystack.com/xyz",
            !.reference = "T685312322670591"]}

initializeResultOwnReference(reply) ==
  IF reply.threw \/ ~reply.status
  THEN [NoResult EXCEPT !.error = OrElse(reply.message, "Failed to initialize payment")]
  ELSE IF ~reply.hasData
  THEN [NoResult EXCEPT !.error = "Failed to initialize payment"]
  ELSE [NoResult EXCEPT !.success = TRUE, !.url = reply.authorization_url,
          !.code = GeneratedReference]

\* what initializePaystackSubscription returns for the gateway's reply
\* (lines 264-282): the gateway's authorization_url and reference, or the
\* error; reading response.data.data of a reply without data throws a
\* TypeError that carries no message of the gateway
initializeResult(reply) ==
  IF reply.threw \/ ~reply.status
  THEN [NoResult EXCEPT !.error = OrElse(reply.message, "Failed to initialize payment")]
  ELSE IF ~reply.hasData
  THEN [NoResult EXCEPT !.error = "Failed to initialize payment"]
  ELSE [NoResult EXCEPT !.success = TRUE, !.url = reply.authorization_url,
          !.code = reply.reference]

SubscriptionEmailsWithCheckoutHome(json, paymentLink, e) ==
  LET emailData == [NoMail EXCEPT !.name = <<json.name>>,
                                  !.paymentLink = "https://checkout.paystack.com"]
  IN << [emailData EXCEPT !.kind = "subscription-initiated", !.to = json.email],
        [emailData EXCEPT !.kind = "new-subscription", !.to = adminEmail(e)] >>

\* the emailData of POST /api/subscribe and the two emails it starts
SubscriptionEmails(json, paymentLink, e) ==
  LET emailData == [NoMail EXCEPT !.name = <<json.name>>, !.paymentLink = paymentLink]
  IN << [emailData EXCEPT !.kind = "subscription-initiated", !.to = json.email],
        [emailData EXCEPT !.kind = "new-subscription", !.to = adminEmail(e)] >>

\* a request arrives at the subscribe endpoint
SubscribeArrives(r) ==
  /\ pc[r] = "idle"
  /\ \E in \in IF r \in Solo THEN SubscribeInputs ELSE CompanionSubscribeInputs :
        request' = [request EXCEPT ![r] = in]
  /\ pc' = [pc EXCEPT ![r] = "POST"]
  /\ UNCHANGED <<env, local, trace, emails, response>>

\* POST from its start to the first gateway call or to its response
SubscribePOST(r) ==
  /\ pc[r] = "POST"
  /\ request[r].endpoint = "subscribe"
  /\ LET json == request[r].json
     IN IF json.kind \in {"invalid", "null"}
        THEN /\ response' = [response EXCEPT ![r] =
                   Json(500, {<<"error", "Failed to initiate subscription">>})]
             /\ pc' = [pc EXCEPT ![r] = "done"]
             /\ UNCHANGED trace
        ELSE IF MissingRequiredFields(json)
        THEN /\ response' = [response EXCEPT ![r] =
                   Json(400, {<<"error", "Missing required fields">>})]
             /\ pc' = [pc EXCEPT ![r] = "done"]
             /\ UNCHANGED trace
        ELSE /\ trace' = [trace EXCEPT ![r] = @ \o
                   <<Ev("call", "POST /customer", json.email, "")>>]
             /\ pc' = [pc EXCEPT ![r] = "createOrGetPaystackCustomer"]
             /\ UNCHANGED response
  /\ UNCHANGED <<env, request, local, emails>>

\* initializePaystackSubscription gives up: POST answers 500 with the error
InitializationFailsSilently(r, error) ==
  /\ response' = [response EXCEPT ![r] =
        Json(200, {<<"error", OrElse(error, "Failed to initialize payment")>>})]
  /\ pc' = [pc EXCEPT ![r] = "done"]

InitializationFails(r, error) ==
  /\ response' = [response EXCEPT ![r] =
        Json(500, {<<"error", OrElse(error, "Failed to initialize payment")>>})]
  /\ pc' = [pc EXCEPT ![r] = "done"]

AfterCustomerUnchecked(r, replied, customerResult, returned) ==
  /\ local' = [local EXCEPT ![r] = [replied EXCEPT !.customerResult = customerResult]]
  /\ IF ~customerResult.success
     THEN /\ trace' = [trace EXCEPT ![r] = @ \o returned]
          /\ InitializationFails(r, OrElse(customerResult.error, "Failed to create customer"))
     ELSE /\ trace' = [trace EXCEPT ![r] = @ \o returned \o
                <<Ev("call", "POST /transaction/initialize", customerResult.code, "")>>]
          /\ pc' = [pc EXCEPT ![r] = "initializePaystackSubscription"]
          /\ UNCHANGED response

\* createOrGetPaystackCustomer returned customerResult (lines 189-262 of
\* paystack.ts): failure, or the transaction is initialized
AfterCustomer(r, replied, customerResult, returned) ==
  /\ local' = [local EXCEPT ![r] = [replied EXCEPT !.customerResult = customerResult]]
  /\ IF ~customerResult.success \/ ~Truthy(customerResult.code)
     THEN /\ trace' = [trace EXCEPT ![r] = @ \o returned]
          /\ InitializationFails(r, OrElse(customerResult.error, "Failed to create customer"))
     ELSE /\ trace' = [trace EXCEPT ![r] = @ \o returned \o
                <<Ev("call", "POST /transaction/initialize", customerResult.code, "")>>]
          /\ pc' = [pc EXCEPT ![r] = "initializePaystackSubscription"]
          /\ UNCHANGED response

fetchSucceededOnStatusAlone(reply) == ~reply.threw /\ reply.status

\* the inner try of createOrGetPaystackCustomer (lines 84-100) returns the
\* fetched customer: the request resolved, with a positive status, and the
\* body has the data whose customer_code is read
fetchSucceeded(reply) == ~reply.threw /\ reply.status /\ reply.hasData

\* the gateway answers the POST /customer of createOrGetPaystackCustomer
CustomerCreateReturns(r) ==
  /\ pc[r] = "createOrGetPaystackCustomer"
  /\ \E reply \in CustomerCreateReplies :
       LET email == request[r].json.email
           returned(res) == <<Ev("return", "POST /customer", email, res)>>
           replied == [local[r] EXCEPT !.create = [done |-> TRUE, reply |-> reply]]
       IN IF reply.threw /\ IncludesAlreadyExists(reply.message)
          THEN /\ local' = [local EXCEPT ![r] =
                     [replied EXCEPT !.customerResult =
                        [NoResult EXCEPT !.error = reply.message]]]
               /\ trace' = [trace EXCEPT ![r] = @ \o returned("failure") \o
                     <<Ev("call", "GET /customer", email, "")>>]
               /\ pc' = [pc EXCEPT ![r] = "fetchCustomer"]
               /\ UNCHANGED response
          ELSE IF reply.threw \/ ~reply.status
          THEN AfterCustomer(r, replied,
                             [NoResult EXCEPT
                                !.error = OrElse(reply.message, "Failed to create customer")],
                             returned("failure"))
          \* response.data.data.customer_code of a body without data throws a
          \* TypeError, which has no response, into the catch
          ELSE IF ~reply.hasData
          THEN AfterCustomer(r, replied,
                             [NoResult EXCEPT !.error = "Failed to create customer"],
                             returned("failure"))
          ELSE AfterCustomer(r, replied,
                             [NoResult EXCEPT !.success = TRUE, !.code = reply.customer_code],
                             returned("success"))
  /\ UNCHANGED <<env, request, emails>>

\* the gateway answers the GET /customer/:email of createOrGetPaystackCustomer;
\* fetchResponse.data.data.customer_code of a body without data throws
\* inside the inner try, whose catch only logs
CustomerFetchReturns(r) ==
  /\ pc[r] = "fetchCustomer"
  /\ \E reply \in CustomerFetchReplies :
       LET email == request[r].json.email
           returned(res) == <<Ev("return", "GET /customer", email, res)>>
           replied == [local[r] EXCEPT !.fetch = [done |-> TRUE, reply |-> reply]]
       IN IF fetchSucceeded(reply)
          THEN AfterCustomer(r, replied,
                             [NoResult EXCEPT !.success = TRUE, !.code = reply.customer_code],
                             returned("success"))
          ELSE AfterCustomer(r, replied,
                             [NoResult EXCEPT
                                !.error = OrElse(local[r].customerResult.error,
                                                 "Failed to create customer")],
                             returned("failure"))
  /\ UNCHANGED <<env, request, emails>>

\* the gateway answers POST /transaction/initialize:
\* initializePaystackSubscription returns and POST answers
InitializeReturns(r) ==
  /\ pc[r] = "initializePaystackSubscription"
  /\ \E reply \in InitializeReplies :
       LET json == request[r].json
           paystackResult == initializeResult(reply)
           ok == paystackResult.success
           mails == SubscriptionEmails(json, paystackResult.url, env)
           returned == <<Ev("return", "POST /transaction/initialize",
                            local[r].customerResult.code,
                            IF ok THEN "success" ELSE "failure")>>
       IN /\ local' = [local EXCEPT ![r].paystackResult = paystackResult,
                                     ![r].initialize = [done |-> TRUE, reply |-> reply]]
          /\ IF ~paystackResult.success
             THEN /\ trace' = [trace EXCEPT ![r] = @ \o returned]
                  /\ InitializationFails(r, paystackResult.error)
                  /\ UNCHANGED emails
             ELSE /\ trace' = [trace EXCEPT ![r] = @ \o returned \o EmailEvents(mails)]
                  /\ emails' = [emails EXCEPT ![r] = @ \o mails]
                  /\ response' = [response EXCEPT ![r] =
                        Json(200, {<<"redirectUrl", paystackResult.url>>,
                                   <<"reference", paystackResult.code>>})]
                  /\ pc' = [pc EXCEPT ![r] = "done"]
  /\ UNCHANGED <<env, request>>

(***************************************************************************)
(* Specifications                                                          *)
(***************************************************************************)

Step(r) ==
  \/ WebhookArrives(r)
  \/ WebhookPOST(r)
  \/ VerifyTransactionReturns(r)
  \/ EnableCustomerReturns(r)
  \/ CreateSubscriptionReturns(r)
  \/ WebhookResponds(r)
  \/ SubscribeArrives(r)
  \/ SubscribePOST(r)
  \/ CustomerCreateReturns(r)
  \/ CustomerFetchReturns(r)
  \/ InitializeReturns(r)
  \/ \E i \in 1..2, ok \in BOOLEAN : EmailSettles(r, i, ok)

\* one request, studied alone
Next == \E r \in Solo : Step(r)

Spec == Init /\ [][Next]_vars

\* the steps of a request that the runtime and the gateway take: the
\* continuations of POST run, and every awaited gateway call returns or
\* fails.  The email provider is not among them.
RequestProgress(r) ==
  \/ WebhookPOST(r)
  \/ VerifyTransactionReturns(r)
  \/ EnableCustomerReturns(r)
  \/ CreateSubscriptionReturns(r)
  \/ WebhookResponds(r)
  \/ SubscribePOST(r)
  \/ CustomerCreateReturns(r)
  \/ CustomerFetchReturns(r)
  \/ InitializeReturns(r)

\* one request, with a gateway that answers every call and an email
\* provider that may never answer
LiveSpec == Init /\ [][Next]_vars /\ \A r \in Solo : WF_vars(RequestProgress(r))

\* two requests, in any interleaving of their steps
NextPair == \E r \in Req : Step(r)

SpecPair == Init /\ [][NextPair]_vars

(***************************************************************************)
(* Vocabulary of the properties                                            *)
(***************************************************************************)

IsWebhook(r) == request[r].endpoint = "webhook"
IsSubscribe(r) == request[r].endpoint = "subscribe"

\* POST has run its first segment for the request in slot r
Started(r) == pc[r] \notin {"idle", "POST"}

\* the digest the gateway would put in the header for the body of r
Digest(r) == HmacSha512Hex(PAYSTACK_SECRET_KEY(env), request[r].body)

\* the header of r is the digest, character for character
ExactlySigned(r) ==
  /\ request[r].signature.present
  /\ Len(request[r].signature.value) = Len(Digest(r))
  /\ \A i \in 1..Len(Digest(r)) : request[r].signature.value[i] = Digest(r)[i]

Positions(r, ops) == {i \in 1..Len(trace[r]) : trace[r][i].op \in ops}

\* the positions of the trace of r at which the request is processed
Processing(r) == Positions(r, {"JSON.parse", "handler", "log", "call", "return", "email"})

HandlersRun(r) == {trace[r][i].api : i \in Positions(r, {"handler"})}

GatewayCalls(r) == {trace[r][i].api : i \in Positions(r, {"call"})}

EmailsStarted(r) == {trace[r][i].api : i \in Positions(r, {"email"})}

Malformed(event) ==
  event.threw \/ event.isNull \/ ~event.data.present \/ ~event.data.customer.present

(***************************************************************************)
(* C1                                                                      *)
(***************************************************************************)

\* C1: a webhook request whose signature header is missing, empty or not
\* the keyed hash of its body is answered 400 and is not processed: no
\* parse, no handler, no gateway call, no email; and whatever processing a
\* request's trace shows comes after a signature check of that request
\* that said true.
C1_UnsignedRequestsAreNotProcessed ==
  \A r \in Req :
    IsWebhook(r) /\ Started(r) =>
      /\ ~ExactlySigned(r) =>
           /\ response[r].sent /\ response[r].status = 400
           /\ Processing(r) = {}
           /\ emails[r] = <<>>
      /\ \A i \in Processing(r) :
           \E j \in 1..(i - 1) : trace[r][j] = Ev("verifyPaystackWebhook", "", "", "true")

\* a charge.success event with one character of its signature changed
\* has been rejected
C1_Witness ==
  \E r \in Req :
    /\ IsWebhook(r) /\ Started(r)
    /\ JSONParse(request[r].body).event = "charge.success"
    /\ request[r].signature.value = OneCharOff(Digest(r))
    /\ response[r].status = 400

(***************************************************************************)
(* C2                                                                      *)
(***************************************************************************)

\* C2: a payment-confirmed or payment-received email is started only after
\* the gateway's transaction verification for the event's reference was
\* called and returned success; once the verification has returned
\* without success, neither email is started.
C2_VerificationPrecedesConfirmation ==
  \A r \in Req :
    IsWebhook(r) =>
      /\ \A i \in Positions(r, {"email"}) :
           trace[r][i].api \in {"payment-confirmed", "payment-received"} =>
             \E c \in 1..(i - 1) : \E d \in (c + 1)..(i - 1) :
               /\ trace[r][c] = Ev("call", "GET /transaction/verify",
                                   local[r].event.data.reference, "")
               /\ trace[r][d] = Ev("return", "GET /transaction/verify",
                                   local[r].event.data.reference, "success")
      /\ (/\ local[r].verification.done
          /\ ~(/\ ~local[r].verification.reply.threw
               /\ local[r].verification.reply.status
               /\ local[r].verification.reply.state = "success"))
           => /\ EmailsStarted(r) = {}
              /\ emails[r] = <<>>

\* both confirmation emails of a re-verified payment have been started
C2_Witness ==
  \E r \in Req :
    /\ local[r].verification.done
    /\ local[r].verification.reply.state = "success"
    /\ EmailsStarted(r) = {"payment-confirmed", "payment-received"}

(***************************************************************************)
(* C3                                                                      *)
(***************************************************************************)

\* C3 as stated: once the signature check has passed, the response is 200
\* with the body {received: true}, and 400 is answered only for a missing
\* or invalid signature.
C3_AlwaysReceivedTrueOnly ==
  \A r \in Req :
    IsWebhook(r) /\ response[r].sent =>
      /\ ExactlySigned(r) =>
           response[r].status = 200 /\ response[r].body = {<<"received", "true">>}
      /\ response[r].status = 400 => ~ExactlySigned(r)

\* C3: once the signature check has passed, every response is 200 and its
\* body carries received: true; the body is exactly {received: true}
\* unless reading the payload threw (the body is not JSON, is null, or
\* lacks data or data.customer), in which case it also carries
\* error: 'Processing error'.  400 is answered only for a missing or
\* invalid signature, and a validly signed request that has finished has
\* been answered.
C3_AcknowledgedOnceSigned ==
  \A r \in Req :
    IsWebhook(r) =>
      /\ response[r].sent /\ ExactlySigned(r) =>
           /\ response[r].status = 200
           /\ <<"received", "true">> \in response[r].body
           /\ response[r].body =
                IF Malformed(JSONParse(request[r].body))
                THEN {<<"received", "true">>, <<"error", "Processing error">>}
                ELSE {<<"received", "true">>}
      /\ response[r].sent /\ response[r].status = 400 => ~ExactlySigned(r)
      /\ pc[r] = "done" => response[r].sent

\* a signed charge.success whose re-verification failed was acknowledged
C3_Witness ==
  \E r \in Req :
    /\ IsWebhook(r) /\ ExactlySigned(r)
    /\ local[r].verification.done /\ ~local[r].verification.success
    /\ response[r] = [sent |-> TRUE, status |-> 200, body |-> {<<"received", "true">>}]

(***************************************************************************)
(* C4                                                                      *)
(***************************************************************************)

\* C4: a webhook request is answered 400 exactly when its header is not
\* the keyed hash of its body, whatever the body is; a correctly signed
\* body that is not JSON, is null, lacks data or data.customer, or has an
\* unknown event kind is answered 200, and for the malformed ones no
\* handler runs, no gateway call is made and no email is started.
C4_AcceptedWhateverTheBody ==
  \A r \in Req :
    IsWebhook(r) /\ Started(r) =>
      /\ response[r].sent => (response[r].status = 400 <=> ~ExactlySigned(r))
      /\ ExactlySigned(r) /\ response[r].sent => response[r].status = 200
      /\ ExactlySigned(r) /\ Malformed(JSONParse(request[r].body)) =>
           /\ response[r].sent
           /\ HandlersRun(r) = {} /\ GatewayCalls(r) = {} /\ EmailsStarted(r) = {}
           /\ emails[r] = <<>>
      /\ (/\ ExactlySigned(r) /\ ~Malformed(JSONParse(request[r].body))
          /\ JSONParse(request[r].body).event \notin {"charge.success", "charge.failed"})
           => response[r].sent

\* a correctly signed body that is not JSON has been answered 200
C4_Witness ==
  \E r \in Req :
    /\ IsWebhook(r) /\ ExactlySigned(r)
    /\ request[r].body = "not json"
    /\ response[r].sent /\ response[r].status = 200

(***************************************************************************)
(* C5                                                                      *)
(***************************************************************************)

NoHeader(r) == IsWebhook(r) /\ ~request[r].signature.present

WrongHeader(r) ==
  IsWebhook(r) /\ request[r].signature.present /\ ~ExactlySigned(r)
    /\ request[r].signature.value # <<>>

\* C5 as stated: the response to a request without a signature header is
\* identical, status and body, to the response to a request whose header
\* does not match the digest.
C5_RejectionsIdentical ==
  \A r1 \in Req : \A r2 \in Req :
    /\ NoHeader(r1) /\ response[r1].sent
    /\ WrongHeader(r2) /\ response[r2].sent
    => response[r1] = response[r2]

\* C5: the response to a request without a signature header and the
\* response to a request whose header does not match the digest have the
\* same status 400 and a body of the same shape, a single error message;
\* the message differs ('No signature provided' against 'Invalid
\* signature'), so the body tells the two rejections apart.
C5_RejectionsShareStatus ==
  \A r1 \in Req : \A r2 \in Req :
    /\ NoHeader(r1) /\ response[r1].sent
    /\ WrongHeader(r2) /\ response[r2].sent
    => /\ response[r1].status = 400 /\ response[r2].status = 400
       /\ response[r1].body = {<<"error", "No signature provided">>}
       /\ response[r2].body = {<<"error", "Invalid signature">>}

\* one request without a header and one with a wrong header were answered
C5_Witness ==
  \E r1 \in Req : \E r2 \in Req :
    /\ NoHeader(r1) /\ response[r1].sent
    /\ WrongHeader(r2) /\ response[r2].sent

(***************************************************************************)
(* C6                                                                      *)
(***************************************************************************)

EmailStates(r) == {emails[r][i].state : i \in 1..Len(emails[r])}

\* C6: two validly signed webhook requests with the same body and the
\* same gateway interaction get the same response, status and body,
\* whatever became of the emails they started (sent, failed, or pending)
\* and whenever that happened; and that response is 200 {received: true}.
C6_EmailOutcomeDoesNotChangeAck ==
  \A r1 \in Req : \A r2 \in Req :
    /\ IsWebhook(r1) /\ IsWebhook(r2)
    /\ ExactlySigned(r1)
    /\ request[r1] = request[r2]
    /\ trace[r1] = trace[r2]
    /\ emails[r1] # <<>>
    /\ response[r1].sent /\ response[r2].sent
    => /\ response[r1] = response[r2]
       /\ response[r1].status = 200
       /\ response[r1].body = {<<"received", "true">>}

\* the same signed event was delivered twice; in one delivery an email
\* failed, in the other every email was sent; both were answered
C6_Witness ==
  \E r1 \in Req : \E r2 \in Req :
    /\ IsWebhook(r1) /\ ExactlySigned(r1)
    /\ request[r1] = request[r2] /\ trace[r1] = trace[r2]
    /\ "failed" \in EmailStates(r1)
    /\ EmailStates(r2) = {"sent"}
    /\ response[r1].sent /\ response[r2].sent

(***************************************************************************)
(* C7                                                                      *)
(***************************************************************************)

FieldMissing(v) == v = Absent \/ v = ""

C8_DispatchByEventKind ==
  \A r \in Req :
    /\ IsWebhook(r) /\ Started(r) /\ ExactlySigned(r)
    /\ ~Malformed(JSONParse(request[r].body))
    => LET kind == JSONParse(request[r].body).event
       IN /\ Cardinality(Positions(r, {"handler", "log"})) = 1
          /\ kind = "charge.success" =>
               /\ HandlersRun(r) = {"handlePaymentSuccess"}
               /\ EmailsStarted(r) \subseteq {"payment-confirmed", "payment-received"}
          /\ kind = "charge.failed" =>
               /\ HandlersRun(r) = {"handlePaymentFailed"}
               /\ GatewayCalls(r) = {}
               /\ EmailsStarted(r) = {"payment-failed"}
          /\ kind \notin {"charge.success", "charge.failed"} =>
               /\ HandlersRun(r) = {}
               /\ GatewayCalls(r) = {}
               /\ EmailsStarted(r) = {} /\ emails[r] = <<>>
               /\ Positions(r, {"log"}) # {}

\* a signed subscription.create event was logged and acknowledged
C8_Witness ==
  \E r \in Req :
    /\ IsWebhook(r) /\ ExactlySigned(r)
    /\ JSONParse(request[r].body).event = "subscription.create"
    /\ Positions(r, {"log"}) # {}
    /\ response[r].sent

(***************************************************************************)
(* C9                                                                      *)
(***************************************************************************)

\* C9: verifyPaystackTransaction reports success exactly when the gateway
\* answered with a positive top-level status and the transaction state
\* 'success' (not when the request threw, the status was negative, or the
\* state was 'failed' or 'abandoned'); and handlePaymentSuccess goes on
\* (enables the subscription, starts emails) only when success was
\* reported.
C9_SuccessIffStatusAndState ==
  \A r \in Req :
    IsWebhook(r) /\ local[r].verification.done =>
      LET reply == local[r].verification.reply
      IN /\ local[r].verification.success <=>
              (~reply.threw /\ reply.status /\ reply.hasData /\ reply.state = "success")
         /\ (GatewayCalls(r) \ {"GET /transaction/verify"} # {} \/ EmailsStarted(r) # {})
              => local[r].verification.success

\* the gateway answered status true with state 'abandoned', and the
\* verification reported failure
C9_Witness ==
  \E r \in Req :
    /\ local[r].verification.done
    /\ local[r].verification.reply.status
    /\ local[r].verification.reply.state = "abandoned"
    /\ ~local[r].verification.success
    /\ pc[r] = "respond"

(***************************************************************************)
(* C10                                                                     *)
(***************************************************************************)

SignatureChecks(r) == {trace[r][i].res : i \in Positions(r, {"verifyPaystackWebhook"})}

\* C10: verifyPaystackWebhook(payload, signature) returns true exactly
\* when signature equals the hex digest of the payload character for
\* character; a signature that differs from the digest in one character
\* or only in letter case gets false; the same payload, signature and
\* secret always get the same answer.
C10_ExactMatchOnly ==
  \A r \in Req :
    IsWebhook(r) /\ Started(r) /\ ~SignatureMissing(request[r].signature) =>
      /\ SignatureChecks(r) = {IF ExactlySigned(r) THEN "true" ELSE "false"}
      /\ \A q \in Req :
           /\ IsWebhook(q) /\ Started(q) /\ ~SignatureMissing(request[q].signature)
           /\ request[q].body = request[r].body
           /\ request[q].signature = request[r].signature
           => SignatureChecks(q) = SignatureChecks(r)

\* a signature equal to the digest but for the case of its letters was
\* given false
C10_Witness ==
  \E r \in Req :
    /\ IsWebhook(r) /\ Started(r)
    /\ request[r].signature.value = UpperCase(Digest(r))
    /\ request[r].signature.value # Digest(r)
    /\ SignatureChecks(r) = {"false"}

(***************************************************************************)
(* C11                                                                     *)
(***************************************************************************)

EmailKinds == {"new-subscription", "subscription-initiated", "payment-confirmed",
               "payment-received", "payment-failed"}

\* C11: each of the five send functions is best-effort: whatever the
\* email provider does, the function does not throw to its caller; it
\* has returned false exactly when the provider call threw and true
\* exactly when it resolved.
C11_SendsNeverThrow ==
  \A r \in Req : \A i \in 1..Len(emails[r]) :
    LET mail == emails[r][i]
    IN /\ mail.kind \in EmailKinds
       /\ mail.state # "threw"
       /\ mail.state = "sent" <=> mail.provider = "resolved"
       /\ mail.state = "failed" <=> mail.provider = "threw"
       /\ mail.state = "pending" <=> mail.provider = "none"

\* the provider threw on the admin's new-subscription email and accepted
\* the payer's subscription-initiated email
C11_Witness ==
  \E r \in Req :
    /\ Len(emails[r]) = 2
    /\ emails[r][1].kind = "subscription-initiated" /\ emails[r][1].state = "sent"
    /\ emails[r][2].kind = "new-subscription" /\ emails[r][2].provider = "threw"
    /\ emails[r][2].state = "failed"

(***************************************************************************)
(* C12                                                                     *)
(***************************************************************************)

PendingEmails(r) == {i \in 1..Len(emails[r]) : emails[r][i].state = "pending"}

\* C12: email sends are not awaited: every request that entered POST is
\* eventually answered although the email provider need never answer a
\* send (no fairness on the provider), given only that the continuations
\* run and the gateway calls return.
C12_ResponseDoesNotWaitForEmails ==
  \A r \in Req : (pc[r] = "POST") ~> response[r].sent

\* a webhook was acknowledged while both confirmation emails were pending
C12_Witness ==
  \E r \in Req :
    /\ IsWebhook(r)
    /\ response[r].sent /\ response[r].status = 200
    /\ Len(emails[r]) = 2
    /\ PendingEmails(r) = {1, 2}

(***************************************************************************)
(* C13                                                                     *)
(***************************************************************************)

\* how often the trace of r shows the operation op on api
Count(r, op, api) == Cardinality({i \in Positions(r, {op}) : trace[r][i].api = api})

\* the gateway's answer to the re-verification of r was positive
Reverified(r) ==
  /\ local[r].verification.done
  /\ ~local[r].verification.reply.threw
  /\ local[r].verification.reply.status
  /\ local[r].verification.reply.state = "success"

\* r is a delivery of a signed charge.success event that was re-verified
\* and whose handler has returned
ProcessedSuccess(r) ==
  /\ IsWebhook(r) /\ ExactlySigned(r)
  /\ ~Malformed(JSONParse(request[r].body))
  /\ JSONParse(request[r].body).event = "charge.success"
  /\ pc[r] \in {"respond", "done"}
  /\ Reverified(r)

\* the deliveries of the event of r, r among them
Deliveries(r) == {q \in Req : request[q] = request[r] /\ ProcessedSuccess(q)}

\* C13: there is no deduplication: a request that has not started holds
\* no state, and every delivery of a signed charge.success event whose
\* re-verification succeeds makes its own re-verification call and starts
\* its own payment-confirmed and payment-received email, so k deliveries
\* of one event make k calls and start each email k times.
C13_EveryDeliveryIsProcessed ==
  /\ \A r \in Req :
       pc[r] \in {"idle", "POST"} =>
         local[r] = NoLocal /\ trace[r] = <<>> /\ emails[r] = <<>>
  /\ \A r \in Req :
       ProcessedSuccess(r) =>
         /\ Count(r, "call", "GET /transaction/verify") = 1
         /\ Count(r, "email", "payment-confirmed") = 1
         /\ Count(r, "email", "payment-received") = 1
         /\ Len(emails[r]) = 2
         /\ LET k == Cardinality(Deliveries(r))
                pairs(op, api) ==
                  UNION {{<<q, i>> : i \in {j \in Positions(q, {op}) : trace[q][j].api = api}} :
                           q \in Deliveries(r)}
            IN /\ Cardinality(pairs("call", "GET /transaction/verify")) = k
               /\ Cardinality(pairs("email", "payment-confirmed")) = k
               /\ Cardinality(pairs("email", "payment-received")) = k

\* the same signed charge.success event was delivered twice and both
\* deliveries were re-verified and have started their emails
C13_Witness ==
  /\ request[1] = request[2]
  /\ ProcessedSuccess(1) /\ ProcessedSuccess(2)
  /\ Cardinality(Deliveries(1)) = 2
  /\ Len(emails[1]) = 2 /\ Len(emails[2]) = 2

(***************************************************************************)
(* C14                                                                     *)
(***************************************************************************)

GatewayApis == {"GET /transaction/verify", "POST /customer", "POST /subscription",
                "GET /customer", "POST /transaction/initialize"}

\* C14: within one request every gateway request and every email send is
\* attempted at most once: the trace shows each gateway request at most
\* once and no call of it after its failure, each kind of email is started
\* at most once and a failed send leaves no new one behind, and a request
\* in which an attempt failed still runs to its response.
C14_NothingIsRetried ==
  \A r \in Req :
    /\ GatewayCalls(r) \subseteq GatewayApis
    /\ EmailsStarted(r) \subseteq EmailKinds
    /\ \A api \in GatewayApis :
         /\ Count(r, "call", api) <= 1
         /\ Count(r, "return", api) <= Count(r, "call", api)
    /\ \A i \in Positions(r, {"return"}) :
         trace[r][i].res = "failure" =>
           \A j \in Positions(r, {"call"}) : j > i => trace[r][j].api # trace[r][i].api
    /\ \A kind \in EmailKinds :
         /\ Count(r, "email", kind) <= 1
         /\ Cardinality({i \in 1..Len(emails[r]) : emails[r][i].kind = kind}) <= 1
    /\ Len(emails[r]) = Cardinality(Positions(r, {"email"}))
    /\ pc[r] = "done" => response[r].sent

\* a payment was confirmed although enabling the recurring subscription
\* failed, and the send of the confirmation failed as well; the request
\* was answered
C14_Witness ==
  \E r \in Req :
    /\ pc[r] = "done"
    /\ \E i \in Positions(r, {"return"}) :
         trace[r][i].api = "POST /customer" /\ trace[r][i].res = "failure"
    /\ Len(emails[r]) = 2
    /\ emails[r][1].kind = "payment-confirmed" /\ emails[r][1].state = "failed"
    /\ response[r].status = 200

(***************************************************************************)
(* C15                                                                     *)
(***************************************************************************)

\* the customer stage of r is over and gave no customer: POST /customer
\* threw, answered a negative status or answered no customer code, and
\* GET /customer/:email, where it was tried, did not find the customer
CustomerCreationFailed(r) ==
  LET created == local[r].create.reply
      fetched == local[r].fetch.reply
  IN /\ local[r].create.done
     /\ pc[r] # "fetchCustomer"
     /\ created.threw \/ ~created.status \/ ~Truthy(created.customer_code)
     /\ ~(/\ local[r].fetch.done
          /\ ~fetched.threw /\ fetched.status /\ Truthy(fetched.customer_code))

\* POST /transaction/initialize threw or was not answered with a positive
\* status and the data of the transaction
TransactionInitializationFailed(r) ==
  LET reply == local[r].initialize.reply
  IN /\ local[r].initialize.done
     /\ reply.threw \/ ~reply.status \/ ~reply.hasData

\* C15: when the gateway fails to initialize the payment of a subscribe
\* request (no customer, a negative status of the initialization, or a
\* gateway request that throws), the request is answered 500 with a body
\* of the one field error, a non-empty message, and neither the
\* subscription-initiated nor the new-subscription email is started; with
\* no customer the transaction is not initialized either.
C15_GatewayFailureSurfacesAs500 ==
  \A r \in Req :
    IsSubscribe(r) /\ (CustomerCreationFailed(r) \/ TransactionInitializationFailed(r)) =>
      /\ response[r].sent /\ response[r].status = 500
      /\ \E p \in response[r].body : response[r].body = {p} /\ p[1] = "error" /\ Truthy(p[2])
      /\ emails[r] = <<>> /\ EmailsStarted(r) = {}
      /\ CustomerCreationFailed(r) => "POST /transaction/initialize" \notin GatewayCalls(r)

\* the customer existed already and was fetched, then the gateway refused
\* to initialize the transaction and its message was passed on
C15_Witness ==
  \E r \in Req :
    /\ IsSubscribe(r) /\ local[r].fetch.done
    /\ TransactionInitializationFailed(r)
    /\ response[r] = Json(500, {<<"error", "Invalid amount">>})
    /\ emails[r] = <<>>

(***************************************************************************)
(* C16                                                                     *)
(***************************************************************************)

\* the fields of a response body
Keys(body) == {p[1] : p \in body}

Rendered(d) ==
  LET k == Len(d)
      major == IF k <= 2 THEN <<0>> ELSE SubSeq(d, 1, k - 2)
      minor == CASE k = 1 -> <<0, d[1]>>
                 [] OTHER -> SubSeq(d, k - 1, k)
  IN <<"R">> \o [i \in 1..Len(major) |-> DigitChar(major[i])] \o <<".">>
       \o [i \in 1..2 |-> DigitChar(minor[i])]

\* C17: formatPaystackAmount renders every non-negative integer amount a
\* of minor units as R, a div 100, a decimal point and a mod 100 written
\* with exactly two digits: the amount of every email of a webhook is that
\* rendering of the amount of the event.
C17_AmountRendering ==
  \A r \in Req : \A i \in 1..Len(emails[r]) :
    IsWebhook(r) => emails[r][i].amount = Rendered(local[r].event.data.amount)

(***************************************************************************)
(* C18                                                                     *)
(***************************************************************************)

\* everything the program holds for the request in slot r
Slot(r) == <<pc[r], request[r], local[r], trace[r], emails[r], response[r]>>

\* what the gateway answered to r, as far as r has read it
Answers(r) ==
  <<local[r].verification.reply, local[r].create, local[r].fetch, local[r].initialize>>

\* the emails r has started, whatever became of their sends
StartedEmails(r) ==
  [i \in 1..Len(emails[r]) |-> [emails[r][i] EXCEPT !.state = "pending", !.provider = "none"]]

\* C18: requests are processed independently: a step of one request
\* leaves everything held for the other request, and the environment,
\* unchanged; and what a request does is decided by the request and the
\* gateway's answers alone: of two requests that are the same, in any
\* interleaving, the traces differ first, if at all, in what the gateway
\* answered to the same call, and with the same trace, answers and position
\* they hold the same response, the same locals and the same emails.
C18_RequestsAreIndependent ==
  /\ [][/\ env' = env
        /\ \E r \in Req : \A q \in Req \ {r} : Slot(q)' = Slot(q)]_vars
  /\ [](\A r, q \in Req :
          r # q /\ request[r] = request[q] =>
            /\ \A i \in 1..Len(trace[r]) :
                 (/\ i <= Len(trace[q])
                  /\ \A j \in 1..(i - 1) : trace[r][j] = trace[q][j]
                  /\ trace[r][i] # trace[q][i])
                   => /\ trace[r][i].op = "return" /\ trace[q][i].op = "return"
                      /\ trace[r][i].api = trace[q][i].api
                      /\ trace[r][i].arg = trace[q][i].arg
            /\ (trace[r] = trace[q] /\ Answers(r) = Answers(q) /\ pc[r] = pc[q])
                 => /\ response[r] = response[q]
                    /\ local[r] = local[q]
                    /\ StartedEmails(r) = StartedEmails(q))

\* two deliveries of the same signed charge.success event were both
\* processed to the end with the same gateway answers
C18_Witness ==
  /\ request[1] = request[2] /\ IsWebhook(1)
  /\ pc[1] = "done" /\ pc[2] = "done"
  /\ trace[1] = trace[2]
  /\ "POST /customer" \in GatewayCalls(1)
  /\ Len(emails[1]) = 2 /\ Len(emails[2]) = 2

(***************************************************************************)
(* C19                                                                     *)
(***************************************************************************)

\* the positions of the trace of r that show op on api
At(r, op, api) == {i \in Positions(r, {op}) : trace[r][i].api = api}

\* C19: in handlePaymentSuccess the re-verification comes first, then the
\* enabling of the recurring subscription, then the confirmation emails:
\* POST /customer of a webhook is called only after the re-verification
\* returned success and only for an event with an authorization code, and
\* it is called for every such event before the emails; POST /subscription
\* only after POST /customer returned success; and when a confirmation
\* email is started every gateway call of the request has returned,
\* successfully or not.
C19_VerifyThenEnableThenEmails ==
  \A r \in Req :
    IsWebhook(r) =>
      LET confirmations == At(r, "email", "payment-confirmed") \cup At(r, "email", "payment-received")
          code == local[r].event.data.authorization.authorization_code
      IN /\ \A i \in At(r, "call", "POST /customer") :
              /\ Truthy(code)
              /\ \E d \in At(r, "return", "GET /transaction/verify") :
                   d < i /\ trace[r][d].res = "success"
         /\ \A i \in At(r, "call", "POST /subscription") :
              \E d \in At(r, "return", "POST /customer") :
                d < i /\ trace[r][d].res = "success"
         /\ \A i \in confirmations :
              /\ \E d \in At(r, "return", "GET /transaction/verify") :
                   d < i /\ trace[r][d].res = "success"
              /\ Truthy(code) => \E c \in At(r, "call", "POST /customer") : c < i
              /\ \A c \in Positions(r, {"call"}) :
                   c < i => \E d \in Positions(r, {"return"}) :
                              c < d /\ d < i /\ trace[r][d].api = trace[r][c].api

\* the payment was re-verified, the customer was made but the gateway
\* refused the subscription, and then both confirmation emails were started
C19_Witness ==
  \E r \in Req :
    /\ IsWebhook(r)
    /\ \E a \in At(r, "return", "GET /transaction/verify") :
       \E b \in At(r, "call", "POST /customer") :
       \E c \in At(r, "return", "POST /subscription") :
       \E d \in At(r, "email", "payment-confirmed") :
         a < b /\ b < c /\ c < d /\ trace[r][c].res = "failure"
    /\ Len(emails[r]) = 2

(***************************************************************************)
(* C20                                                                     *)
(***************************************************************************)

\* C20: once handlePaymentSuccess has returned for a signed charge.success
\* event whose re-verification succeeded, exactly two emails have been
\* started: a payment-confirmed email to the customer email of the payload
\* and a payment-received email to ADMIN_EMAIL, or to admin@shegymz.com
\* when that is unset; with or without an authorization code, and whatever
\* became of enabling the recurring subscription.  Until then the request
\* has started none.
C20_TwoEmailsPerConfirmedPayment ==
  \A r \in Req :
    (/\ IsWebhook(r) /\ ExactlySigned(r)
     /\ ~Malformed(JSONParse(request[r].body))
     /\ JSONParse(request[r].body).event = "charge.success") =>
      /\ Len(emails[r]) \in {0, 2}
      /\ pc[r] \in {"respond", "done"} /\ Reverified(r) =>
           /\ Len(emails[r]) = 2
           /\ Cardinality(Positions(r, {"email"})) = 2
           /\ emails[r][1].kind = "payment-confirmed"
           /\ emails[r][1].to = JSONParse(request[r].body).data.customer.email
           /\ emails[r][2].kind = "payment-received"
           /\ emails[r][2].to = IF env.ADMIN_EMAIL \in {Absent, ""}
                                THEN "admin@shegymz.com" ELSE env.ADMIN_EMAIL
           /\ \A i \in Positions(r, {"email"}) :
                trace[r][i].arg = emails[r][i - Len(trace[r]) + 2].to

\* the event carried an authorization code, enabling the recurring
\* subscription failed, and the two emails went to the customer and to the
\* configured admin address
C20_Witness ==
  \E r \in Req :
    /\ IsWebhook(r) /\ Reverified(r)
    /\ Truthy(local[r].event.data.authorization.authorization_code)
    /\ \E i \in At(r, "return", "POST /customer") : trace[r][i].res = "failure"
    /\ Len(emails[r]) = 2
    /\ emails[r][1].to = "thandi@example.com"
    /\ emails[r][2].to = "owner@shegymz.com"

(***************************************************************************)
(* C21                                                                     *)
(***************************************************************************)

\* r is a signed charge.failed event whose handler has returned
ProcessedFailure(r) ==
  /\ IsWebhook(r) /\ ExactlySigned(r)
  /\ ~Malformed(JSONParse(request[r].body))
  /\ JSONParse(request[r].body).event = "charge.failed"
  /\ pc[r] \in {"respond", "done"}

\* C21: a signed charge.failed event starts exactly one email, the
\* payment-failed email to the customer email of the payload, whose reason
\* is the gateway_response of the payload or, when the payload has none,
\* 'Payment could not be processed'; the request makes no gateway call
\* (no re-verification, no recurring subscription) and starts no email to
\* the admin.
C21_FailedPaymentNotifiesPayerOnly ==
  \A r \in Req :
    ProcessedFailure(r) =>
      LET data == JSONParse(request[r].body).data
      IN /\ Len(emails[r]) = 1
         /\ Cardinality(Positions(r, {"email"})) = 1
         /\ EmailsStarted(r) = {"payment-failed"}
         /\ emails[r][1].kind = "payment-failed"
         /\ emails[r][1].to = data.customer.email
         /\ emails[r][1].reason =
              IF data.gateway_response \in {Absent, ""}
              THEN "Payment could not be processed" ELSE data.gateway_response
         /\ \A i \in Positions(r, {"email"}) : trace[r][i].arg = data.customer.email
         /\ GatewayCalls(r) = {}
         /\ Positions(r, {"return"}) = {}
         /\ HandlersRun(r) = {"handlePaymentFailed"}
         /\ ~local[r].verification.done
         /\ local[r].subscriptionResult = NoResult
         /\ \A i \in 1..Len(emails[r]) : emails[r][i].to # adminEmail(env)

\* a signed charge.failed event without a gateway_response was answered,
\* and its one email carries the default reason
C21_Witness ==
  \E r \in Req :
    /\ ProcessedFailure(r) /\ pc[r] = "done"
    /\ JSONParse(request[r].body).data.gateway_response = Absent
    /\ Len(emails[r]) = 1
    /\ emails[r][1].reason = "Payment could not be processed"

(***************************************************************************)
(* C22                                                                     *)
(***************************************************************************)

\* enableRecurringSubscription was called for r and has returned
EnableReturned(r) ==
  /\ IsWebhook(r)
  /\ At(r, "return", "POST /customer") # {}
  /\ pc[r] \in {"respond", "done"}

\* C22: enableRecurringSubscription falls back to the authorization code
\* only when no plan code is configured: its result is success with the
\* authorization code exactly when PAYSTACK_PLAN_CODE is unset (and the
\* customer request succeeded); with a plan code its result is success
\* only with the subscription code the gateway created, and failure when
\* the gateway's subscription creation failed.
C22_FallbackOnlyWithoutPlanCode ==
  \A r \in Req :
    EnableReturned(r) =>
      LET result == local[r].subscriptionResult
          authorizationCode == local[r].event.data.authorization.authorization_code
          planCode == env.PAYSTACK_PLAN_CODE
          customerMade == \E i \in At(r, "return", "POST /customer") :
                            trace[r][i].res = "success"
          created == \E i \in At(r, "return", "POST /subscription") :
                       trace[r][i].res = "success"
          refused == \E i \in At(r, "return", "POST /subscription") :
                       trace[r][i].res = "failure"
      IN /\ customerMade =>
              ((result.success /\ result.code = authorizationCode)
                 <=> planCode \in {Absent, ""})
         /\ (planCode \notin {Absent, ""} /\ result.success) =>
              created /\ result.code \in {s.subscription_code : s \in SubscriptionReplies} \ {Absent}
         /\ (planCode \notin {Absent, ""} /\ refused) => ~result.success

(***************************************************************************)
(* C23                                                                     *)
(***************************************************************************)

\* the value of the property key of a response body
Property(body, key) == {p[2] : p \in {q \in body : q[1] = key}}

\* C23: on POST /api/subscribe the subscription-initiated email (to the
\* email of the request) and the new-subscription email (to the admin) are
\* started only after POST /transaction/initialize returned success, and
\* not after the response: a response without them is never the success
\* response, and once the response is sent no email is started.  The
\* payment link of the subscription-initiated email is the authorization
\* URL of the gateway's answer, which is the redirectUrl of the response.
C23_SubscribeEmailsAfterInitialization ==
  /\ [](\A r \in Req :
          IsSubscribe(r) =>
            /\ EmailsStarted(r) \subseteq {"subscription-initiated", "new-subscription"}
            /\ Len(emails[r]) \in {0, 2}
            /\ \A i \in Positions(r, {"email"}) :
                 \E d \in At(r, "return", "POST /transaction/initialize") :
                   d < i /\ trace[r][d].res = "success"
            /\ Len(emails[r]) = 2 =>
                 /\ emails[r][1].kind = "subscription-initiated"
                 /\ emails[r][1].to = request[r].json.email
                 /\ emails[r][2].kind = "new-subscription"
                 /\ emails[r][2].to = adminEmail(env)
                 /\ local[r].initialize.done
                 /\ emails[r][1].paymentLink = local[r].initialize.reply.authorization_url
                 /\ response[r].sent /\ response[r].status = 200
                 /\ Property(response[r].body, "redirectUrl") = {emails[r][1].paymentLink}
            /\ (response[r].sent /\ Property(response[r].body, "redirectUrl") # {}) =>
                 Len(emails[r]) = 2)
  /\ [][\A r \in Req :
          (IsSubscribe(r) /\ response[r].sent) =>
            StartedEmails(r)' = StartedEmails(r)]_vars

\* the gateway answered the initialization with its own checkout URL, the
\* two emails were started with it and the caller was redirected to it
C23_Witness ==
  \E r \in Req :
    /\ IsSubscribe(r) /\ pc[r] = "done"
    /\ Len(emails[r]) = 2
    /\ emails[r][1].paymentLink = "https://checkout.paystack.com/xyz"
    /\ Property(response[r].body, "redirectUrl") = {"https://checkout.paystack.com/xyz"}

(***************************************************************************)
(* C24                                                                     *)
(***************************************************************************)

\* the customer code the gateway gave to r: that of the creation, or that
\* of the fetch when the customer existed already; Absent when it gave none
ObtainedCustomerCode(r) ==
  IF local[r].fetch.done
  THEN IF ~local[r].fetch.reply.threw /\ local[r].fetch.reply.status
       THEN local[r].fetch.reply.customer_code ELSE Absent
  ELSE IF local[r].create.done /\ ~local[r].create.reply.threw /\ local[r].create.reply.status
       THEN local[r].create.reply.customer_code ELSE Absent

\* createOrGetPaystackCustomer has returned for r
CustomerReturned(r) ==
  /\ IsSubscribe(r)
  /\ local[r].create.done
  /\ pc[r] # "fetchCustomer"

\* C24: initializePaystackSubscription creates or fetches the customer
\* before it initializes the transaction: POST /transaction/initialize is
\* called only after a customer request returned, with the customer code
\* the gateway gave; and when the gateway gave no customer code the
\* function returns failure (the request is answered 500) and
\* POST /transaction/initialize is never called.
C24_CustomerBeforeInitialize ==
  \A r \in Req :
    IsSubscribe(r) =>
      /\ \A i \in At(r, "call", "POST /transaction/initialize") :
           /\ \E c \in At(r, "call", "POST /customer") : c < i
           /\ \E d \in At(r, "return", "POST /customer") \cup At(r, "return", "GET /customer") :
                d < i /\ trace[r][d].res = "success"
           /\ \A c \in Positions(r, {"call"}) :
                c < i => \E d \in Positions(r, {"return"}) :
                           c < d /\ d < i /\ trace[r][d].api = trace[r][c].api
           /\ ObtainedCustomerCode(r) \notin {Absent, ""}
           /\ trace[r][i].arg = ObtainedCustomerCode(r)
      /\ (CustomerReturned(r) /\ ObtainedCustomerCode(r) \in {Absent, ""}) =>
           /\ At(r, "call", "POST /transaction/initialize") = {}
           /\ ~local[r].paystackResult.success
           /\ ~local[r].initialize.done
           /\ pc[r] = "done" /\ response[r].sent /\ response[r].status = 500
           /\ emails[r] = <<>>

\* the gateway answered the creation with a positive status and a body
\* that names no customer code: the request failed without initializing
C24_Witness ==
  \E r \in Req :
    /\ CustomerReturned(r)
    /\ local[r].create.reply.status /\ local[r].create.reply.hasData
    /\ local[r].create.reply.customer_code = Absent
    /\ At(r, "call", "POST /transaction/initialize") = {}
    /\ response[r].status = 500

(***************************************************************************)
(* C25                                                                     *)
(***************************************************************************)

\* what createOrGetPaystackCustomer does for r, where fetched says which
\* answers to the fetch count as the customer having been fetched: the
\* fetch is made exactly when the creation threw with the gateway's
\* 'already exists' message; after a fetch the result is success, with the
\* fetched customer code, exactly when fetched; every other failure is a
\* result of failure, which POST reports with the gateway's message or
\* 'Failed to create customer' (no exception reaches the caller, whose
\* catch would report 'Failed to initialize payment')
CustomerLookup(r, fetched) ==
  LET create == local[r].create
      fetch == local[r].fetch
      result == local[r].customerResult
      exists == create.reply.threw /\ create.reply.message = "Customer already exists"
  IN /\ (At(r, "call", "GET /customer") # {}) <=> (create.done /\ exists)
     /\ fetch.done =>
          /\ result.success <=> fetched
          /\ result.success => result.code = fetch.reply.customer_code
     /\ (CustomerReturned(r) /\ (create.reply.threw \/ ~create.reply.status) /\ ~exists) =>
          ~result.success
     /\ (CustomerReturned(r) /\ ~result.success) =>
          /\ pc[r] = "done" /\ response[r].status = 500
          /\ Property(response[r].body, "error")
               \subseteq {create.reply.message, "Failed to create customer"}
     /\ (CustomerReturned(r) /\ pc[r] = "done") =>
          Property(response[r].body, "error") # {"Failed to initiate subscription"}

\* C25 as stated: after a fetch, createOrGetPaystackCustomer returns
\* success with the fetched customer code if and only if the fetch
\* returned a positive status.
C25_FetchedIffPositiveStatus ==
  \A r \in Req :
    IsSubscribe(r) =>
      CustomerLookup(r, ~local[r].fetch.reply.threw /\ local[r].fetch.reply.status)

\* C25, amended: createOrGetPaystackCustomer fetches the customer only
\* when the creation failed with the 'already exists' message; after a
\* fetch it returns success with the fetched customer code if and only if
\* the fetch returned a positive status and a body with data; in every
\* other failure case it returns failure and never throws to its caller.
C25_FetchedIffPositiveStatusWithData ==
  \A r \in Req :
    IsSubscribe(r) =>
      CustomerLookup(r, /\ ~local[r].fetch.reply.threw
                        /\ local[r].fetch.reply.status
                        /\ local[r].fetch.reply.hasData)

\* the customer existed already and the fetch was answered with a positive
\* status and no data: the lookup failed and the request was answered 500
C25_Witness ==
  \E r \in Req :
    /\ CustomerReturned(r) /\ local[r].fetch.done
    /\ local[r].fetch.reply.status /\ ~local[r].fetch.reply.hasData
    /\ ~local[r].customerResult.success
    /\ response[r].status = 500

(***************************************************************************)
(* C26                                                                     *)
(***************************************************************************)

\* r is a signed charge.success event whose re-verification was answered
SuccessEventVerified(r) ==
  /\ IsWebhook(r) /\ ExactlySigned(r)
  /\ ~Malformed(JSONParse(request[r].body))
  /\ JSONParse(request[r].body).event = "charge.success"
  /\ local[r].verification.done

\* the re-verification request of r failed: a network error or an error
\* response, for which axios throws
VerificationRequestFailed(r) ==
  SuccessEventVerified(r) /\ local[r].verification.reply.threw

\* the gateway answered the re-verification of r and did not confirm it
VerificationNegative(r) ==
  /\ SuccessEventVerified(r)
  /\ ~local[r].verification.reply.threw
  /\ ~(/\ local[r].verification.reply.status
        /\ local[r].verification.reply.hasData
        /\ local[r].verification.reply.state = "success")

\* C26: when the re-verification request of a signed charge.success event
\* itself fails, no confirmation email is started, the recurring
\* subscription is not attempted, the re-verification is called once and
\* not again, and the webhook is acknowledged with 200; the request ends
\* exactly as one with the same payload whose re-verification was
\* answered negatively.
C26_FailedVerificationRequestIsNegative ==
  \A r \in Req :
    VerificationRequestFailed(r) =>
      /\ emails[r] = <<>>
      /\ Positions(r, {"email"}) = {}
      /\ GatewayCalls(r) = {"GET /transaction/verify"}
      /\ Count(r, "call", "GET /transaction/verify") = 1
      /\ Count(r, "return", "GET /transaction/verify") = 1
      /\ local[r].subscriptionResult = NoResult
      /\ pc[r] \in {"respond", "done"}
      /\ pc[r] = "done" =>
           /\ response[r].status = 200
           /\ Property(response[r].body, "received") = {"true"}
      /\ \A q \in Req :
           (VerificationNegative(q) /\ request[q] = request[r] /\ pc[q] = pc[r]) =>
             /\ trace[q] = trace[r]
             /\ emails[q] = emails[r]
             /\ response[q] = response[r]
             /\ [local[q] EXCEPT !.verification.reply = NoReply]
                  = [local[r] EXCEPT !.verification.reply = NoReply]

\* of two deliveries of one signed charge.success event the
\* re-verification request of the first failed and that of the second was
\* answered negatively; both were acknowledged
C26_Witness ==
  /\ VerificationRequestFailed(1) /\ VerificationNegative(2)
  /\ request[1] = request[2]
  /\ pc[1] = "done" /\ pc[2] = "done"
  /\ response[1].status = 200 /\ emails[1] = <<>>

(***************************************************************************)
(* C27                                                                     *)
(***************************************************************************)

\* C27: the re-verification decides only whether the confirmation emails
\* are started, not what they say: the recipient, amount, reference,
\* payment date and card details of the payment-confirmed and
\* payment-received emails are those of the webhook payload, whatever
\* transaction the gateway's verification answer describes; a positive
\* answer that describes another amount or customer than the payload
\* has the emails started all the same.
C27_EmailsSayWhatThePayloadSays ==
  \A r \in Req :
    (IsWebhook(r) /\ ExactlySigned(r)
       /\ JSONParse(request[r].body).event = "charge.success") =>
      LET data == JSONParse(request[r].body).data
          answer == local[r].verification.reply
      IN /\ Len(emails[r]) > 0 => Reverified(r)
         /\ (Reverified(r) /\ pc[r] \in {"respond", "done"}) => Len(emails[r]) = 2
         /\ \A i \in 1..Len(emails[r]) :
              /\ emails[r][i].kind \in {"payment-confirmed", "payment-received"}
              /\ emails[r][i].kind = "payment-confirmed" =>
                   emails[r][i].to = data.customer.email
              /\ emails[r][i].kind = "payment-received" =>
                   emails[r][i].to = adminEmail(env)
              /\ emails[r][i].amount = formatPaystackAmount(data.amount)
              /\ emails[r][i].reference = data.reference
              /\ emails[r][i].paymentDate = toLocaleDateString(data.paid_at)
              /\ emails[r][i].cardLast4 = data.authorization.last4
              /\ emails[r][i].cardType = data.authorization.card_type
              /\ emails[r][i].name = <<data.customer.first_name, data.customer.last_name>>

\* the gateway confirmed a transaction of another amount and another
\* customer than the payload's; the emails were started and say what the
\* payload says
C27_Witness ==
  \E r \in Req :
    /\ IsWebhook(r) /\ Reverified(r)
    /\ local[r].verification.reply.amount # local[r].event.data.amount
    /\ local[r].verification.reply.email # local[r].event.data.customer.email
    /\ Len(emails[r]) = 2
    /\ emails[r][1].to = local[r].event.data.customer.email
    /\ emails[r][1].amount = formatPaystackAmount(local[r].event.data.amount)

(***************************************************************************)
(* C28                                                                     *)
(***************************************************************************)

\* r has started the two emails of a confirmed payment
ConfirmationsStarted(r) ==
  /\ IsWebhook(r)
  /\ Len(emails[r]) = 2
  /\ emails[r][1].kind = "payment-confirmed"
  /\ emails[r][2].kind = "payment-received"

\* C28: the payment-confirmed and the payment-received email of one
\* payment are started together, in one step of the handler, and their
\* sends are independent: while one of them is pending it can complete
\* with success and it can complete with failure, whatever became of the
\* other (pending, sent or failed), and the completion of one changes
\* nothing of the other, in whichever order they complete.
C28_ConfirmationSendsAreIndependent ==
  /\ [](\A r \in Solo :
          ConfirmationsStarted(r) =>
            \A i \in 1..2 :
              emails[r][i].state = "pending" =>
                /\ ENABLED EmailSettles(r, i, TRUE)
                /\ ENABLED EmailSettles(r, i, FALSE))
  /\ [][\A r \in Solo :
          /\ (IsWebhook(r) /\ local[r].event.event = "charge.success") =>
               Len(emails'[r]) - Len(emails[r]) \in {0, 2}
          /\ ConfirmationsStarted(r) =>
               /\ StartedEmails(r)' = StartedEmails(r)
               /\ \A i \in 1..2 :
                    emails'[r][i] # emails[r][i] =>
                      /\ emails[r][i].state = "pending"
                      /\ emails'[r][i].state \in {"sent", "failed"}
                      /\ emails'[r][3 - i] = emails[r][3 - i]]_vars

\* the send of the payment-confirmed email failed and the send of the
\* payment-received email succeeded
C28_Witness ==
  \E r \in Solo :
    /\ ConfirmationsStarted(r)
    /\ emails[r][1].state = "failed"
    /\ emails[r][2].state = "sent"

(***************************************************************************)
(* C29                                                                     *)
(***************************************************************************)

\* C29: every webhook request gets exactly one HTTP response, 400 or 200:
\* with a gateway that answers or fails every awaited call, a request that
\* has arrived is eventually answered; a request that has ended has been
\* answered; and a response, once sent, is never replaced by another.
C29_ExactlyOneResponse ==
  /\ \A r \in Solo :
       (IsWebhook(r) /\ pc[r] = "POST") ~> (pc[r] = "done" /\ response[r].sent)
  /\ [](\A r \in Solo :
          IsWebhook(r) =>
            /\ pc[r] = "done" <=> response[r].sent
            /\ response[r].sent => response[r].status \in {200, 400}
            /\ ~response[r].sent => response[r] = NoResponse)
  /\ [][\A r \in Solo :
          (IsWebhook(r) /\ response[r].sent) =>
            /\ response'[r] = response[r]
            /\ pc'[r] = pc[r]]_vars

\* a signed charge.success event went through all three awaited gateway
\* calls, the last of which failed, and was answered 200
C29_Witness ==
  \E r \in Solo :
    /\ IsWebhook(r) /\ pc[r] = "done"
    /\ GatewayCalls(r) = {"GET /transaction/verify", "POST /customer", "POST /subscription"}
    /\ \E i \in At(r, "return", "POST /subscription") : trace[r][i].res = "failure"
    /\ response[r].sent /\ response[r].status = 200

(***************************************************************************)
(* C30                                                                     *)
(***************************************************************************)

\* PAYSTACK_SECRET_KEY is not configured
KeyUnset == env.PAYSTACK_SECRET_KEY \in {Absent, ""}

\* the header of r is the digest of its body under the empty key
SignedWithEmptyKey(r) ==
  /\ request[r].signature.present
  /\ request[r].signature.value = HmacSha512Hex("", request[r].body)

\* C30: without a configured secret key the verifier hashes with the
\* empty string as key: the endpoint accepts exactly the requests whose
\* header is the digest of the body under the empty key and rejects the
\* others with 400, and an accepted request is processed as a signed
\* request is: the body is parsed, a charge.success event is re-verified
\* with the gateway, a charge.failed event starts the payment-failed
\* email, any other event is logged, and the request is answered 200.
C30_EmptyKeyStillVerifies ==
  \A r \in Req :
    (KeyUnset /\ IsWebhook(r) /\ Started(r)) =>
      LET event == JSONParse(request[r].body)
      IN /\ local[r].signature = "valid" <=> SignedWithEmptyKey(r)
         /\ ~SignedWithEmptyKey(r) =>
              /\ response[r].status = 400
              /\ Processing(r) = {}
              /\ emails[r] = <<>>
         /\ SignedWithEmptyKey(r) =>
              /\ Positions(r, {"JSON.parse"}) # {}
              /\ response[r].sent => response[r].status = 200
              /\ ~Malformed(event) =>
                   /\ event.event = "charge.success" =>
                        /\ HandlersRun(r) = {"handlePaymentSuccess"}
                        /\ At(r, "call", "GET /transaction/verify") # {}
                        /\ (Reverified(r) /\ pc[r] \in {"respond", "done"}) =>
                             Len(emails[r]) = 2
                   /\ event.event = "charge.failed" =>
                        /\ HandlersRun(r) = {"handlePaymentFailed"}
                        /\ EmailsStarted(r) = {"payment-failed"}
                   /\ event.event \notin {"charge.success", "charge.failed"} =>
                        /\ HandlersRun(r) = {}
                        /\ Positions(r, {"log"}) # {}

\* without a configured key a charge.success event signed with the empty
\* key was accepted, re-verified and confirmed by email
C30_Witness ==
  \E r \in Req :
    /\ KeyUnset /\ IsWebhook(r) /\ SignedWithEmptyKey(r)
    /\ local[r].signature = "valid"
    /\ Reverified(r) /\ pc[r] = "done"
    /\ Len(emails[r]) = 2 /\ response[r].status = 200

====
